---- MODULE Spec2Model ----
(***************************************************************************)
(* A model of the geph5 client's exit selection, failure cache, route     *)
(* compiler and dialer composition (binaries/geph5-client/src/route.rs),  *)
(* with the dialing of the composed dialers (sillad), and of the geph5     *)
(* exit's accept loop, handshake and registration loop                     *)
(* (binaries/geph5-exit/src/listen.rs).                                    *)
(***************************************************************************)
EXTENDS Integers, Sequences, FiniteSets, TLC

VARIABLES
    exits,        \* the verified exit list, exits.all_exits (route.rs:104)
    constraint,   \* ctx.init().exit_constraint (route.rs:51)
    chosen,       \* the (pubkey, exit) pair bound at route.rs:114, or a marker
    ROUTE_SHITLIST,  \* the failure cache: address -> strike count, with its age
    thr,          \* threads inside deprioritize_route: position, address, local value
    before,       \* strike count of RaceAddr before the concurrent calls began
    finished,     \* number of deprioritize_route calls that have returned
    gd,           \* where get_dialer is: start, token, exits, routes, done or err
    mode,         \* ctx.init().bridge_mode (route.rs:167)
    bridge_routes, \* the RouteDescriptor get_routes returned (route.rs:156)
    dialer,       \* final_dialer, the dialer get_dialer returns
    whitelisted,  \* the IPs passed to vpn_whitelist, in call order
    calls,        \* the auth and broker calls made, in call order
    dial,         \* the dial in progress on the returned dialer, or its result
    now,          \* milliseconds since that dial began
    dials,        \* the dials begun on the returned dialer so far
    net,          \* what a TCP connect to each address does during that dial
    log,          \* the TCP connects that dial has started
    lm,           \* the exit's listen_main: where its two loops are, what it returned
    reg,          \* the exit's broker_loop: its IP, clock, and the descriptors put
    clients       \* the exit's handle_client tasks, one per accepted connection

selVars == <<exits, constraint, chosen>>
cacheVars == <<ROUTE_SHITLIST, thr, before, finished>>
raceVars == <<thr, before, finished>>
gdVars == <<gd, mode, bridge_routes, dialer, whitelisted, calls>>
dialVars == <<dial, now, dials, net, log>>
exitVars == <<lm, reg, clients>>
clientVars == <<exits, constraint, chosen, ROUTE_SHITLIST, thr, before, finished,
                gd, mode, bridge_routes, dialer, whitelisted, calls, dial, now, dials, net, log>>

vars == <<exits, constraint, chosen, ROUTE_SHITLIST, thr, before, finished,
          gd, mode, bridge_routes, dialer, whitelisted, calls, dial, now, dials, net, log,
          lm, reg, clients>>

----------------------------------------------------------------------------
(* Values *)

\* No value (Rust's None).
None == [tag |-> "None"]

\* std::net::Ipv4Addr as its four octets; SocketAddr as [ip, port].
DIGITS == <<"0", "1", "2", "3", "4", "5", "6", "7", "8", "9">>

\* Display of a u8 in decimal, without leading zeros.
U8ToString(n) ==
    IF n < 10 THEN DIGITS[n + 1]
    ELSE IF n < 100 THEN DIGITS[(n \div 10) + 1] \o DIGITS[(n % 10) + 1]
    ELSE DIGITS[(n \div 100) + 1] \o DIGITS[((n \div 10) % 10) + 1] \o DIGITS[(n % 10) + 1]

\* IpAddr::to_string of an IPv4 address: dotted decimal.
IpToString(ip) ==
    U8ToString(ip[1]) \o "." \o U8ToString(ip[2]) \o "." \o
    U8ToString(ip[3]) \o "." \o U8ToString(ip[4])

SockAddr(ip, port) == [ip |-> ip, port |-> port]

Some(x) == [tag |-> "Some", v |-> x]

\* The client-facing endpoint of exit i, and two bridge endpoints.
C2E(i) == SockAddr(<<10, 0, 0, i>>, 9000)
B1 == SockAddr(<<192, 0, 2, 1>>, 443)
B2 == SockAddr(<<192, 0, 2, 2>>, 443)

\* The addresses deprioritize_route is called on.
BumpAddrs == {C2E(1), B1}

----------------------------------------------------------------------------
(* Failure cache: ROUTE_SHITLIST and deprioritize_route, route.rs:23-32 *)

\* A time to live of half the length.
TTLHalved == 600 \div 2

\* time_to_live(Duration::from_secs(600)): the seconds an entry lives.
TTL == 600

\* The cache maps the addresses it holds to [v, age]: the value and the
\* milliseconds since the entry was last written.
EmptyCache == [a \in {} |-> 0]

\* Cache::get: an entry older than the time to live is not returned.
CacheGet(c, a) ==
    IF a \in DOMAIN c /\ c[a].age < TTL * 1000 THEN Some(c[a].v) ELSE None

\* Cache::insert: writes the value and restarts the entry's time to live.
CacheInsert(c, a, v) ==
    [x \in DOMAIN c \cup {a} |-> IF x = a THEN [v |-> v, age |-> 0] ELSE c[x]]

\* Cache::get_with(key, init): the live value, or init inserted and returned.
GetWithValue(c, a, init) == IF CacheGet(c, a) # None THEN CacheGet(c, a).v ELSE init
GetWithCache(c, a, init) == IF CacheGet(c, a) # None THEN c ELSE CacheInsert(c, a, init)

\* ROUTE_SHITLIST.get(&addr).unwrap_or_default(), read as whole seconds.
Penalty(c, a) == IF CacheGet(c, a) # None THEN CacheGet(c, a).v ELSE 0

\* d milliseconds pass: every entry ages (ages are kept up to the time to
\* live, where the entry has expired).
Aged(c, d) ==
    [a \in DOMAIN c |->
        [c[a] EXCEPT !.age = IF c[a].age + d >= TTL * 1000 THEN TTL * 1000
                             ELSE c[a].age + d]]

\* The threads that may be inside deprioritize_route at once, the calls
\* they make in all, and the calls made in a run of the client.
NumThreads == 3
MaxRaceCalls == 4
MaxBumps == 1

Threads == 1..NumThreads
RaceAddr == B1
IdleThread == [pc |-> "idle", addr |-> None, v |-> 0]

\* The calls of deprioritize_route that have begun and not returned.
Entered == Cardinality({t \in Threads : thr[t].pc = "insert"})

\* deprioritize_route(addr) is ROUTE_SHITLIST.insert(addr,
\* ROUTE_SHITLIST.get_with(addr, || 1) + 1): two calls into the cache, with
\* nothing held between them. First thread t evaluates the argument,
\* get_with(addr, || 1) + 1, which leaves 1 in the cache when addr had no
\* live entry.
deprioritize_route_get_with(t, addr) ==
    /\ thr[t].pc = "idle"
    /\ thr' = [thr EXCEPT ![t] = [pc |-> "insert", addr |-> addr,
                                  v |-> GetWithValue(ROUTE_SHITLIST, addr, 1) + 1]]
    /\ ROUTE_SHITLIST' = GetWithCache(ROUTE_SHITLIST, addr, 1)
    /\ UNCHANGED <<before, finished>>
    /\ UNCHANGED <<selVars, gdVars, dialVars, exitVars>>

\* Then thread t runs insert(addr, <the value it computed>) and returns.
deprioritize_route_insert(t) ==
    /\ thr[t].pc = "insert"
    /\ ROUTE_SHITLIST' = CacheInsert(ROUTE_SHITLIST, thr[t].addr, thr[t].v)
    /\ thr' = [thr EXCEPT ![t] = IdleThread]
    /\ finished' = finished + 1
    /\ UNCHANGED before
    /\ UNCHANGED <<selVars, gdVars, dialVars, exitVars>>

----------------------------------------------------------------------------
(* Exit selection: get_dialer, route.rs:48-51 and 81-144 *)

\* A load is a binary float; the model writes it as its number of 1/4096
\* units, so 3 is the float 0.000732421875 and 2048 is 0.5. For every such
\* load below 4.096 (its units times 1000 stay below 2^24) the product
\* load * 1000.0 is itself a float of either width, so the multiplication
\* does not round.
\* (load * 1000.0) as u64: the cast drops the fraction, and takes a
\* negative product to 0.
LoadKey(load) == IF load < 0 THEN 0 ELSE (load * 1000) \div 4096

\* The three optional constraints set by the match on exit_constraint.
CountryConstraint(c) ==
    IF c.tag \in {"Country", "CountryCity"} THEN [tag |-> "Some", v |-> c.country] ELSE None

CityConstraint(c) ==
    IF c.tag = "CountryCity" THEN [tag |-> "Some", v |-> c.city] ELSE None

HostnameConstraint(c) ==
    IF c.tag = "Hostname" THEN [tag |-> "Some", v |-> c.hostname] ELSE None

\* FilterPass without the city test.
FilterPassNoCity(exit, c) ==
    LET country_pass == IF CountryConstraint(c) # None
                        THEN exit.country = CountryConstraint(c).v ELSE TRUE
        hostname_pass == IF HostnameConstraint(c) # None
                         THEN IpToString(exit.b2e_listen.ip) = HostnameConstraint(c).v
                         ELSE TRUE
    IN  country_pass /\ hostname_pass

\* The closure given to filter(): country_pass && city_pass && hostname_pass.
FilterPass(exit, c) ==
    LET country_pass == IF CountryConstraint(c) # None
                        THEN exit.country = CountryConstraint(c).v ELSE TRUE
        city_pass == IF CityConstraint(c) # None
                     THEN exit.city = CityConstraint(c).v ELSE TRUE
        hostname_pass == IF HostnameConstraint(c) # None
                         THEN IpToString(exit.b2e_listen.ip) = HostnameConstraint(c).v
                         ELSE TRUE
    IN  country_pass /\ city_pass /\ hostname_pass

\* Iterator::filter over a list of (pubkey, exit) pairs, order kept.
RECURSIVE Filter(_, _)
Filter(xs, c) ==
    IF xs = <<>> THEN <<>>
    ELSE IF FilterPass(Head(xs)[2], c)
         THEN <<Head(xs)>> \o Filter(Tail(xs), c)
         ELSE Filter(Tail(xs), c)

\* MinFold keeping the last of several equally minimal elements.
RECURSIVE MinFoldLast(_, _)
MinFoldLast(best, xs) ==
    IF xs = <<>> THEN best
    ELSE MinFoldLast(IF LoadKey(best[2].load) >= LoadKey(Head(xs)[2].load)
                     THEN Head(xs) ELSE best,
                     Tail(xs))

\* Iterator::min_by_key's fold: a later element replaces the best so far
\* only when its key is strictly smaller.
RECURSIVE MinFold(_, _)
MinFold(best, xs) ==
    IF xs = <<>> THEN best
    ELSE MinFold(IF LoadKey(best[2].load) > LoadKey(Head(xs)[2].load)
                 THEN Head(xs) ELSE best,
                 Tail(xs))

\* min_by_key(|e| (e.1.load * 1000.0) as u64): None on an empty iterator.
MinByKey(xs) ==
    IF xs = <<>> THEN None
    ELSE [tag |-> "Some", v |-> MinFold(Head(xs), Tail(xs))]

\* let (pubkey, exit) = if let Some(min) = filtered.min_by_key(..) { min }
\* else { all_exits.min_by_key(..).context("no exits that fit the criterion")? }
ChooseExit(all_exits, c) ==
    LET filtered == MinByKey(Filter(all_exits, c))
        fallback == MinByKey(all_exits)
    IN  IF filtered # None
        THEN [tag |-> "Ok", pubkey |-> filtered.v[1], exit |-> filtered.v[2]]
        ELSE IF fallback # None
             THEN [tag |-> "Ok", pubkey |-> fallback.v[1], exit |-> fallback.v[2]]
             ELSE [tag |-> "Err", msg |-> "no exits that fit the criterion"]

----------------------------------------------------------------------------
(* The Direct constraint: get_dialer, route.rs:52-80 *)

\* A String is the sequence of its characters.
\* str::split_once('/'): the parts before and after the first '/', or None.
FirstSlash(str) ==
    IF \E i \in 1..Len(str) : str[i] = "/"
    THEN CHOOSE i \in 1..Len(str) :
            str[i] = "/" /\ \A j \in 1..(i - 1) : str[j] # "/"
    ELSE 0

SplitOnce(str) ==
    IF FirstSlash(str) = 0 THEN None
    ELSE Some(<<SubSeq(str, 1, FirstSlash(str) - 1),
                SubSeq(str, FirstSlash(str) + 1, Len(str))>>)

\* The value of a hexadecimal digit, of either case; -1 for any other character.
HEXLOWER == <<"0", "1", "2", "3", "4", "5", "6", "7", "8", "9", "a", "b", "c", "d", "e", "f">>
HEXUPPER == <<"0", "1", "2", "3", "4", "5", "6", "7", "8", "9", "A", "B", "C", "D", "E", "F">>

HexVal(ch) ==
    IF \E i \in 1..16 : HEXLOWER[i] = ch
    THEN (CHOOSE i \in 1..16 : HEXLOWER[i] = ch) - 1
    ELSE IF \E i \in 1..16 : HEXUPPER[i] = ch
         THEN (CHOOSE i \in 1..16 : HEXUPPER[i] = ch) - 1
         ELSE -1

\* hex::decode: an error on an odd length or on a character that is no
\* hexadecimal digit, else the bytes, two digits each.
HexDecode(str) ==
    IF Len(str) % 2 # 0 \/ \E i \in 1..Len(str) : HexVal(str[i]) = -1
    THEN None
    ELSE Some([i \in 1..(Len(str) \div 2) |->
                  16 * HexVal(str[2 * i - 1]) + HexVal(str[2 * i])])

\* The exit descriptor the Direct branch returns.
DirectExitDescriptor ==
    [c2e_listen |-> SockAddr(<<0, 0, 0, 0>>, 0), b2e_listen |-> SockAddr(<<0, 0, 0, 0>>, 0),
     country |-> "ABW", city |-> "", load |-> 0, expiry |-> 0]

\* The Direct branch with the destination whitelisted before the key is decoded.
DirectBranchWhitelistFirst(dir, resolved, pick, on_curve) ==
    LET parts == SplitOnce(dir)
        bytes == IF parts = None THEN None ELSE HexDecode(parts.v[2])
        wl == IF resolved # None /\ resolved.v # <<>> THEN <<resolved.v[pick].ip>> ELSE <<>>
    IN  IF parts = None THEN [tag |-> "Err", msg |-> "did not find / in a direct constraint", wl |-> wl]
        ELSE IF bytes = None THEN [tag |-> "Err", msg |-> "cannot decode pubkey as hex", wl |-> wl]
        ELSE IF Len(bytes.v) # 32 THEN [tag |-> "Err", msg |-> "pubkey wrong length", wl |-> wl]
        ELSE IF ~on_curve THEN [tag |-> "Err", msg |-> "signature error", wl |-> wl]
        ELSE IF resolved = None THEN [tag |-> "Err", msg |-> "resolve", wl |-> wl]
        ELSE IF resolved.v = <<>>
             THEN [tag |-> "Err", wl |-> wl,
                   msg |-> "could not resolve destination for direct exit connection"]
        ELSE [tag |-> "Ok", pubkey |-> bytes.v, exit |-> DirectExitDescriptor,
              dest_addr |-> resolved.v[pick], wl |-> wl]

\* The Direct(dir) arm of the match on exit_constraint. resolved is what
\* smol::net::resolve answers (None: an error), pick the index choose() draws,
\* on_curve whether VerifyingKey::from_bytes accepts the 32 bytes.
DirectBranch(dir, resolved, pick, on_curve) ==
    LET parts == SplitOnce(dir)
        bytes == IF parts = None THEN None ELSE HexDecode(parts.v[2])
    IN  IF parts = None THEN [tag |-> "Err", msg |-> "did not find / in a direct constraint", wl |-> <<>>]
        ELSE IF bytes = None THEN [tag |-> "Err", msg |-> "cannot decode pubkey as hex", wl |-> <<>>]
        ELSE IF Len(bytes.v) # 32 THEN [tag |-> "Err", msg |-> "pubkey wrong length", wl |-> <<>>]
        ELSE IF ~on_curve THEN [tag |-> "Err", msg |-> "signature error", wl |-> <<>>]
        ELSE IF resolved = None THEN [tag |-> "Err", msg |-> "resolve", wl |-> <<>>]
        ELSE IF resolved.v = <<>>
             THEN [tag |-> "Err", wl |-> <<>>,
                   msg |-> "could not resolve destination for direct exit connection"]
        ELSE [tag |-> "Ok", pubkey |-> bytes.v, exit |-> DirectExitDescriptor,
              dest_addr |-> resolved.v[pick], wl |-> <<resolved.v[pick].ip>>]

----------------------------------------------------------------------------
(* Dialers and their combinators (sillad), as values *)

\* TcpDialer { dest_addr }; site tells the two places that build one apart:
\* "direct" is route.rs:150 and "route" is route.rs:183.
TcpDialer(dest_addr, site) == [k |-> "Tcp", dest_addr |-> dest_addr, site |-> site]

\* d.dyn_delay(|| Duration::from_secs(ROUTE_SHITLIST.get(&key)...)): the
\* closure is kept, with the address it captured.
DynDelayDialer(inner, key) == [k |-> "DynDelay", inner |-> inner, key |-> key]

\* d.delay(Duration::from_millis(ms))
DelayDialer(inner, ms) == [k |-> "Delay", inner |-> inner, ms |-> ms]

\* a.race(b)
RaceDialer(a, b) == [k |-> "Race", l |-> a, r |-> b]

\* a.fallback(b)
FallbackDialer(a, b) == [k |-> "Fallback", l |-> a, r |-> b]

\* d.timeout(Duration::from_millis(ms))
TimeoutDialer(inner, ms) == [k |-> "Timeout", inner |-> inner, ms |-> ms]

\* SosistabDialer { inner, cookie }
SosistabDialer(inner, cookie) == [k |-> "Sosistab", inner |-> inner, cookie |-> cookie]

FailingDialer == [k |-> "Failing"]

----------------------------------------------------------------------------
(* Route compiler: route_to_dialer, route.rs:178-221 *)

\* The closure given to reduce: |a, b| a.race(b) or |a, b| a.fallback(b).
Combine(kind, a, b) ==
    IF kind = "Race" THEN RaceDialer(a, b) ELSE FallbackDialer(a, b)

\* Iterator::reduce over the compiled children: None when there are none.
RECURSIVE ReduceFrom(_, _, _, _)
ReduceFrom(kind, acc, ds, i) ==
    IF i > Len(ds) THEN acc ELSE ReduceFrom(kind, Combine(kind, acc, ds[i]), ds, i + 1)

Reduce(kind, ds) ==
    IF ds = <<>> THEN None ELSE Some(ReduceFrom(kind, ds[1], ds, 2))

UnwrapOrFailing(o) == IF o = None THEN FailingDialer ELSE o.v

\* All the sequences of a sequence of sequences, joined in order.
RECURSIVE Concat(_)
Concat(ss) == IF ss = <<>> THEN <<>> ELSE Head(ss) \o Concat(Tail(ss))

\* Race compiled with fallback in the place of race.
RaceArmAsFallback(kids) == UnwrapOrFailing(Reduce("Fallback", kids))

\* inside.iter().map(route_to_dialer).reduce(|a, b| a.race(b).dynamic())
\*       .unwrap_or_else(|| FailingDialer.dynamic())
RaceArm(kids) == UnwrapOrFailing(Reduce("Race", kids))

\* a.iter().map(route_to_dialer).reduce(|a, b| a.fallback(b).dynamic())
\*       .unwrap_or_else(|| FailingDialer.dynamic())
FallbackArm(kids) == UnwrapOrFailing(Reduce("Fallback", kids))

\* TcpDialer { dest_addr: addr }.dyn_delay(move || Duration::from_secs(
\*     ROUTE_SHITLIST.get(&addr).unwrap_or_default() as _))
TcpArm(addr) == DynDelayDialer(TcpDialer(addr, "route"), addr)

\* The Tcp arm without its call of the whitelist hook.
TcpArmWhitelistNone(addr) == <<>>

\* vpn_whitelist(addr.ip()), the first statement of the Tcp arm.
TcpArmWhitelist(addr) == <<addr.ip>>

\* The Other arm compiled as if it were a Tcp leaf (here: to B2).
OtherArmDialing == TcpDialer(B2, "route")

\* RouteDescriptor::Other(_) => FailingDialer.dynamic()
OtherArm == FailingDialer

\* route_to_dialer(route): the dialer (.d) and the IPs passed to
\* vpn_whitelist, in call order (.wl).
RECURSIVE route_to_dialer(_)
route_to_dialer(route) ==
    CASE route.k = "Tcp" ->
            [d |-> TcpArm(route.addr), wl |-> TcpArmWhitelist(route.addr)]
      [] route.k = "Sosistab3" ->
            LET inner == route_to_dialer(route.lower)
            IN  [d |-> SosistabDialer(inner.d, route.cookie), wl |-> inner.wl]
      [] route.k = "Race" ->
            LET kids == [i \in 1..Len(route.inside) |-> route_to_dialer(route.inside[i])]
            IN  [d |-> RaceArm([i \in 1..Len(kids) |-> kids[i].d]),
                 wl |-> Concat([i \in 1..Len(kids) |-> kids[i].wl])]
      [] route.k = "Fallback" ->
            LET kids == [i \in 1..Len(route.inside) |-> route_to_dialer(route.inside[i])]
            IN  [d |-> FallbackArm([i \in 1..Len(kids) |-> kids[i].d]),
                 wl |-> Concat([i \in 1..Len(kids) |-> kids[i].wl])]
      [] route.k = "Timeout" ->
            LET inner == route_to_dialer(route.lower)
            IN  [d |-> TimeoutDialer(inner.d, route.milliseconds), wl |-> inner.wl]
      [] route.k = "Delay" ->
            LET inner == route_to_dialer(route.lower)
            IN  [d |-> DelayDialer(inner.d, route.milliseconds), wl |-> inner.wl]
      [] route.k = "Other" ->
            [d |-> OtherArm, wl |-> <<>>]

----------------------------------------------------------------------------
(* Dialing (sillad): what a dial of a composed dialer does, step by step *)

\* A running dial is a tree like its dialer's:
\*   conn     a TCP connect in flight: started at `at`, ends after `left`
\*            more milliseconds (-1: never) with result res
\*   wait     a delay with `left` milliseconds to go, then `then` is dialed
\*   race, fallback, timeout, sosi   the combinators, over running dials
\*   ok, err  a finished dial: a pipe to addr, or a failure
Idle == [k |-> "idle"]
DialErr == [k |-> "err"]
DialOk(addr, site) == [k |-> "ok", addr |-> addr, site |-> site]

Finished(p) == p.k \in {"ok", "err"}
Running(p) == p.k \notin {"idle", "ok", "err"}

\* race: the first success wins and the other side is dropped; both failed
\* is a failure; b says which side wins when both succeed at once.
RaceStep(l, r, b) ==
    IF l.k = "ok" /\ r.k = "ok" THEN (IF b = "L" THEN l ELSE r)
    ELSE IF l.k = "ok" THEN l
    ELSE IF r.k = "ok" THEN r
    ELSE IF l.k = "err" /\ r.k = "err" THEN DialErr
    ELSE [k |-> "race", l |-> l, r |-> r]

\* timeout: the inner result if it is there, a failure once the time is up.
TimeoutStep(left, inner) ==
    IF Finished(inner) THEN inner
    ELSE IF left <= 0 THEN DialErr
    ELSE [k |-> "timeout", left |-> left, inner |-> inner]

\* sosistab: the obfuscation layer sits on the lower pipe.
SosiStep(inner) ==
    IF Finished(inner) THEN inner ELSE [k |-> "sosi", inner |-> inner]

\* Start(d, t, nt, b, c): dialer d begins a dial at time t; nt is what the
\* network does and c the failure cache as it is at that moment. A
\* dyn_delay calls its closure now, reading the cache.
RECURSIVE Start(_, _, _, _, _)
RECURSIVE FallbackStep(_, _, _, _, _, _)

\* fallback: the second dialer is dialed when the first has failed.
FallbackStep(l, r, t, nt, b, c) ==
    IF l.k = "ok" THEN l
    ELSE IF l.k = "err" THEN Start(r, t, nt, b, c)
    ELSE [k |-> "fallback", l |-> l, r |-> r]

Start(d, t, nt, b, c) ==
    CASE d.k = "Tcp" ->
            [k |-> "conn", addr |-> d.dest_addr, site |-> d.site, at |-> t,
             left |-> IF nt[d.dest_addr].res = "hang" THEN -1 ELSE nt[d.dest_addr].ms,
             res |-> nt[d.dest_addr].res]
      [] d.k = "DynDelay" ->
            IF Penalty(c, d.key) = 0 THEN Start(d.inner, t, nt, b, c)
            ELSE [k |-> "wait", left |-> Penalty(c, d.key) * 1000,
                  then |-> d.inner]
      [] d.k = "Delay" ->
            IF d.ms = 0 THEN Start(d.inner, t, nt, b, c)
            ELSE [k |-> "wait", left |-> d.ms, then |-> d.inner]
      [] d.k = "Race" -> RaceStep(Start(d.l, t, nt, b, c), Start(d.r, t, nt, b, c), b)
      [] d.k = "Fallback" -> FallbackStep(Start(d.l, t, nt, b, c), d.r, t, nt, b, c)
      [] d.k = "Timeout" -> TimeoutStep(d.ms, Start(d.inner, t, nt, b, c))
      [] d.k = "Sosistab" -> SosiStep(Start(d.inner, t, nt, b, c))
      [] d.k = "Failing" -> DialErr

\* Milliseconds until the next timer or connect of p ends; 0 when none will.
MinPos(a, b) == IF a = 0 THEN b ELSE IF b = 0 THEN a ELSE IF a < b THEN a ELSE b

RECURSIVE NextEvent(_)
NextEvent(p) ==
    CASE p.k = "conn" -> IF p.left = -1 THEN 0 ELSE p.left
      [] p.k = "wait" -> p.left
      [] p.k = "race" -> MinPos(NextEvent(p.l), NextEvent(p.r))
      [] p.k = "fallback" -> NextEvent(p.l)
      [] p.k = "timeout" -> MinPos(p.left, NextEvent(p.inner))
      [] p.k = "sosi" -> NextEvent(p.inner)
      [] OTHER -> 0

\* Advance(p, dt, t, nt, b, c): dt milliseconds pass, it is now t and the
\* failure cache is c.
RECURSIVE Advance(_, _, _, _, _, _)
Advance(p, dt, t, nt, b, c) ==
    CASE p.k = "conn" ->
            IF p.left = -1 THEN p
            ELSE IF p.left > dt THEN [p EXCEPT !.left = p.left - dt]
            ELSE IF p.res = "ok" THEN DialOk(p.addr, p.site) ELSE DialErr
      [] p.k = "wait" ->
            IF p.left > dt THEN [p EXCEPT !.left = p.left - dt]
            ELSE Start(p.then, t, nt, b, c)
      [] p.k = "race" ->
            RaceStep(Advance(p.l, dt, t, nt, b, c), Advance(p.r, dt, t, nt, b, c), b)
      [] p.k = "fallback" ->
            FallbackStep(Advance(p.l, dt, t, nt, b, c), p.r, t, nt, b, c)
      [] p.k = "timeout" -> TimeoutStep(p.left - dt, Advance(p.inner, dt, t, nt, b, c))
      [] p.k = "sosi" -> SosiStep(Advance(p.inner, dt, t, nt, b, c))
      [] OTHER -> p

\* The TCP connects in flight in p.
RECURSIVE Conns(_)
Conns(p) ==
    CASE p.k = "conn" -> {[addr |-> p.addr, site |-> p.site, at |-> p.at]}
      [] p.k = "race" -> Conns(p.l) \cup Conns(p.r)
      [] p.k \in {"fallback"} -> Conns(p.l)
      [] p.k \in {"timeout", "sosi"} -> Conns(p.inner)
      [] OTHER -> {}

\* The addresses dialer d can connect to.
RECURSIVE DialerAddrs(_)
DialerAddrs(d) ==
    CASE d.k = "Tcp" -> {d.dest_addr}
      [] d.k \in {"Race", "Fallback"} -> DialerAddrs(d.l) \cup DialerAddrs(d.r)
      [] d.k \in {"DynDelay", "Delay", "Timeout", "Sosistab"} -> DialerAddrs(d.inner)
      [] OTHER -> {}

----------------------------------------------------------------------------
(* get_dialer past the choice of exit: route.rs:146-175 *)

\* The direct dialer with the delay read once, when get_dialer runs.
direct_dialer_early(exit_c2e) ==
    DelayDialer(TcpDialer(exit_c2e, "direct"), Penalty(ROUTE_SHITLIST, exit_c2e) * 1000)

\* let direct_dialer = TcpDialer { dest_addr: exit_c2e }.dyn_delay(move ||
\*     Duration::from_secs(ROUTE_SHITLIST.get(&exit_c2e).unwrap_or_default() as _))
direct_dialer(exit_c2e) == DynDelayDialer(TcpDialer(exit_c2e, "direct"), exit_c2e)

BridgeModes == {"Auto", "ForceBridges", "ForceDirect"}

\* final_dialer with the race of Auto used in every mode.
final_dialer_always_race(bridge_mode, direct, bridge) ==
    RaceDialer(direct, DelayDialer(bridge, 1000))

\* final_dialer with the bridge dialer of Auto not delayed.
final_dialer_no_delay(bridge_mode, direct, bridge) ==
    CASE bridge_mode = "Auto" -> RaceDialer(direct, bridge)
      [] bridge_mode = "ForceBridges" -> bridge
      [] bridge_mode = "ForceDirect" -> direct

\* let final_dialer = match ctx.init().bridge_mode { .. }
final_dialer(bridge_mode, direct, bridge) ==
    CASE bridge_mode = "Auto" -> RaceDialer(direct, DelayDialer(bridge, 1000))
      [] bridge_mode = "ForceBridges" -> bridge
      [] bridge_mode = "ForceDirect" -> direct

----------------------------------------------------------------------------
(* Inputs of get_dialer and of a dial *)

\* RouteDescriptor
Tcp(addr) == [k |-> "Tcp", addr |-> addr]
Sosistab3(cookie, lower) == [k |-> "Sosistab3", cookie |-> cookie, lower |-> lower]
Race(inside) == [k |-> "Race", inside |-> inside]
Fallback(inside) == [k |-> "Fallback", inside |-> inside]
Timeout(milliseconds, lower) ==
    [k |-> "Timeout", milliseconds |-> milliseconds, lower |-> lower]
Delay(milliseconds, lower) ==
    [k |-> "Delay", milliseconds |-> milliseconds, lower |-> lower]
Other(v) == [k |-> "Other", v |-> v]

MaxKids == 2

\* The dials the model lets a caller begin on one returned dialer.
MaxDials == 1

\* The longest a dial is followed for, in milliseconds.
MaxNow == 700000

Leaves == {Tcp(B1), Tcp(B2), Other("quic")}

RECURSIVE SeqsOfLen(_, _)
SeqsOfLen(S, n) ==
    IF n = 0 THEN {<<>>}
    ELSE { Append(xs, x) : xs \in SeqsOfLen(S, n - 1), x \in S }

KidSeqs == UNION { SeqsOfLen(Leaves, n) : n \in 0..MaxKids }

\* The routes get_routes answers with.
Routes ==
    Leaves
    \cup { Race(ks) : ks \in KidSeqs }
    \cup { Fallback(ks) : ks \in KidSeqs }
    \cup { Sosistab3("cookie", Tcp(B1)),
           Timeout(250, Tcp(B1)),
           Delay(500, Tcp(B2)),
           Race(<<Other("quic"), Fallback(<<Tcp(B1), Tcp(B2)>>)>>),
           Fallback(<<Timeout(250, Tcp(B1)), Sosistab3("cookie", Tcp(B2))>>),
           Timeout(250, Race(<<Tcp(B1), Delay(500, Tcp(B2))>>)) }

\* The exit lists get_exits answers with.
GdExit(i, country, city, load) ==
    <<i, [c2e_listen |-> C2E(i), b2e_listen |-> SockAddr(<<10, 0, 0, i>>, 9001),
          country |-> country, city |-> city, load |-> load, expiry |-> 0]>>

GdExitLists ==
    { <<>>,
      <<GdExit(1, "US", "nyc", 410)>>,
      <<GdExit(1, "US", "nyc", 410), GdExit(2, "JP", "tyo", 1)>> }

GdConstraints == {[tag |-> "Auto"]}

\* The routes get_routes answers with in the runs of get_dialer.
GdRoutes_ ==
    { Tcp(B1), Other("quic"), Race(<<>>),
      Race(<<Tcp(B1), Tcp(B2)>>),
      Fallback(<<Tcp(B1), Tcp(B2)>>),
      Sosistab3("cookie", Tcp(B1)),
      Timeout(250, Tcp(B1)),
      Delay(500, Tcp(B2)) }

\* What a TCP connect does: succeed or fail after ms milliseconds, or hang.
Outcomes ==
    { [res |-> "ok", ms |-> 200], [res |-> "ok", ms |-> 300],
      [res |-> "err", ms |-> 200], [res |-> "hang", ms |-> 0] }

NoNet == [a \in {} |-> 0]

\* The state of get_dialer before it is called, and of a dial before one is made.
NoGetDialer ==
    /\ gd = "start" /\ mode = "Auto" /\ bridge_routes = None /\ dialer = None
    /\ whitelisted = <<>> /\ calls = <<>>

NoDial == dial = Idle /\ now = 0 /\ dials = 0 /\ net = NoNet /\ log = {}

----------------------------------------------------------------------------
(* The exit: handle_client, listen.rs:98-139 *)

\* The connections the model lets the exit accept, the logical streams it
\* lets one client open, and the descriptors it lets the exit put.
MaxClients == 2
MaxStreams == 2
MaxPuts == 3

Clients == 1..MaxClients

\* X25519, in the multiplicative group modulo 23 with base point 5: a secret
\* is an exponent, PublicKey::from(&esk) is 5^esk, and
\* esk.diffie_hellman(&their_epk) is their_epk^esk.
RECURSIVE PowMod(_, _)
PowMod(b, e) == IF e = 0 THEN 1 ELSE (b * PowMod(b, e - 1)) % 23

PublicKey(esk) == PowMod(5, esk)
diffie_hellman(esk, their_epk) == PowMod(their_epk, esk)

\* blake3::derive_key(context, key_material) and blake3::keyed_hash(key, input),
\* as the terms they are applied to: different arguments, different outputs.
derive_key(context, key_material) == [context |-> context, key_material |-> key_material]
keyed_hash(key, input) == [key |-> key, input |-> input]

\* ClientCryptHello and ExitHelloInner
SharedSecretChallenge(key) == [tag |-> "SharedSecretChallenge", key |-> key]
X25519(epk) == [tag |-> "X25519", epk |-> epk]
SharedSecretResponse(mac) == [tag |-> "SharedSecretResponse", mac |-> mac]

\* The match on crypt_hello with the two key labels exchanged.
CryptHelloLabelsSwapped(crypt_hello, shared_secret, my_esk) ==
    IF crypt_hello.tag = "SharedSecretChallenge"
    THEN IF shared_secret = None
         THEN [tag |-> "Err", msg |-> "no shared secret"]
         ELSE [tag |-> "Ok", keys |-> None,
               inner |-> SharedSecretResponse(keyed_hash(crypt_hello.key, shared_secret.v))]
    ELSE LET shared == diffie_hellman(my_esk, crypt_hello.epk)
         IN  [tag |-> "Ok",
              keys |-> Some(<<derive_key("e2c", shared), derive_key("c2e", shared)>>),
              inner |-> X25519(PublicKey(my_esk))]

\* The match on crypt_hello answering a challenge on a pipe with no shared
\* secret as if the secret were 0.
CryptHelloDefaultSecret(crypt_hello, shared_secret, my_esk) ==
    IF crypt_hello.tag = "SharedSecretChallenge"
    THEN [tag |-> "Ok", keys |-> None,
          inner |-> SharedSecretResponse(keyed_hash(crypt_hello.key,
                        IF shared_secret = None THEN 0 ELSE shared_secret.v))]
    ELSE LET shared == diffie_hellman(my_esk, crypt_hello.epk)
         IN  [tag |-> "Ok",
              keys |-> Some(<<derive_key("c2e", shared), derive_key("e2c", shared)>>),
              inner |-> X25519(PublicKey(my_esk))]

\* let exit_hello_inner = match client_hello.crypt_hello { .. }, with keys:
\* keys is Some((read_key, write_key)) or None. listen.rs:102-119.
CryptHello(crypt_hello, shared_secret, my_esk) ==
    IF crypt_hello.tag = "SharedSecretChallenge"
    THEN IF shared_secret = None
         THEN [tag |-> "Err", msg |-> "no shared secret"]
         ELSE [tag |-> "Ok", keys |-> None,
               inner |-> SharedSecretResponse(keyed_hash(crypt_hello.key, shared_secret.v))]
    ELSE LET shared == diffie_hellman(my_esk, crypt_hello.epk)
         IN  [tag |-> "Ok",
              keys |-> Some(<<derive_key("c2e", shared), derive_key("e2c", shared)>>),
              inner |-> X25519(PublicKey(my_esk))]

\* ExitHello { inner, signature: SIGNING_SECRET.sign(&(client_hello, inner).stdcode()) }
ExitHello(client_hello, inner) ==
    [inner |-> inner,
     signature |-> [signer |-> "SIGNING_SECRET", msg |-> <<client_hello, inner>>]]

\* if let Some((read_key, write_key)) = keys { EitherPipe::Left(
\* ClientExitCryptPipe::new(client, read_key, write_key)) } else { EitherPipe::Right(client) }
WrapPipe(keys) ==
    IF keys # None
    THEN [tag |-> "Left", read_key |-> keys.v[1], write_key |-> keys.v[2]]
    ELSE [tag |-> "Right"]

\* The client's side of the X25519 path: Diffie-Hellman of its own ephemeral
\* secret with the ephemeral key of the ExitHello, then the cipher pipe
\* written with c2e and read with e2c.
ClientKeys(my_esk, their_epk) ==
    LET shared == diffie_hellman(my_esk, their_epk)
    IN  [write_key |-> derive_key("c2e", shared), read_key |-> derive_key("e2c", shared)]

\* A handle_client task: pc is "none" (no such connection yet), "read"
\* (awaiting the ClientHello), "write" (awaiting the write of the ExitHello),
\* "mux" (awaiting mux.accept()) or "done" (returned). events is what the
\* task has done on its pipe, in order; streams the proxy_stream tasks spawned.
NoClient ==
    [pc |-> "none", secret |-> None, hello |-> None, exit_hello |-> None,
     keys |-> None, pipe |-> None, events |-> <<>>, streams |-> <<>>, result |-> None]

Returned(c, msg) == [c EXCEPT !.pc = "done", !.result = Some(msg)]

\* listen.rs:100-124 up to the await of the write: the ClientHello is read
\* and parsed (msg = None: the read or the parse fails), the match runs, the
\* ExitHello is built and signed.
HcReadHello(i, msg, my_esk) ==
    /\ clients[i].pc = "read"
    /\ LET c == clients[i]
           res == CryptHello(msg.v.crypt_hello, c.secret, my_esk)
       IN  clients' = [clients EXCEPT ![i] =
              IF msg = None THEN Returned(c, "read")
              ELSE IF res.tag = "Err"
                   THEN Returned([c EXCEPT !.hello = msg,
                                           !.events = Append(c.events, "read ClientHello")],
                                 res.msg)
                   ELSE [c EXCEPT !.pc = "write", !.hello = msg, !.keys = res.keys,
                                  !.exit_hello = Some(ExitHello(msg.v, res.inner)),
                                  !.events = Append(c.events, "read ClientHello")]]
    /\ UNCHANGED <<lm, reg>>
    /\ UNCHANGED clientVars

\* handle_client building the multiplexer before it writes the ExitHello.
HcWriteHelloAfterMux(i, ok) ==
    /\ clients[i].pc = "write"
    /\ LET c == clients[i]
       IN  clients' = [clients EXCEPT ![i] =
              [c EXCEPT !.pc = IF ok THEN "mux" ELSE "done",
                        !.result = IF ok THEN None ELSE Some("write"),
                        !.pipe = Some(WrapPipe(c.keys)),
                        !.events = c.events \o
                            (<<"wrap", "PicoMux::new">> \o
                             IF ok THEN <<"write ExitHello">> ELSE <<>>)]]
    /\ UNCHANGED <<lm, reg>>
    /\ UNCHANGED clientVars

\* listen.rs:124-133: the write of the ExitHello ends; when it succeeded the
\* pipe is wrapped (or not), split, and the multiplexer built on it.
HcWriteHello(i, ok) ==
    /\ clients[i].pc = "write"
    /\ LET c == clients[i]
       IN  clients' = [clients EXCEPT ![i] =
              IF ~ok THEN Returned(c, "write")
              ELSE [c EXCEPT !.pc = "mux",
                             !.pipe = Some(WrapPipe(c.keys)),
                             !.events = c.events \o
                                 <<"write ExitHello", "wrap", "PicoMux::new">>]]
    /\ UNCHANGED <<lm, reg>>
    /\ UNCHANGED clientVars

\* listen.rs:134-138 with the proxy_stream of a new stream awaited in the loop.
HcMuxAcceptInline(i, ok) ==
    /\ clients[i].pc = "mux"
    /\ \A k \in 1..Len(clients[i].streams) : clients[i].streams[k] = "ok"
    /\ ok => Len(clients[i].streams) < MaxStreams
    /\ LET c == clients[i]
       IN  clients' = [clients EXCEPT ![i] =
              IF ~ok THEN Returned(c, "mux")
              ELSE [c EXCEPT !.streams = Append(c.streams, "running"),
                             !.events = Append(c.events, "accept")]]
    /\ UNCHANGED <<lm, reg>>
    /\ UNCHANGED clientVars

\* listen.rs:134-138: mux.accept() ends; a stream is handed to a new,
\* detached proxy_stream task, an error returns from handle_client.
HcMuxAccept(i, ok) ==
    /\ clients[i].pc = "mux"
    /\ ok => Len(clients[i].streams) < MaxStreams
    /\ LET c == clients[i]
       IN  clients' = [clients EXCEPT ![i] =
              IF ~ok THEN Returned(c, "mux")
              ELSE [c EXCEPT !.streams = Append(c.streams, "running"),
                             !.events = Append(c.events, "accept")]]
    /\ UNCHANGED <<lm, reg>>
    /\ UNCHANGED clientVars

\* A proxy_stream task ends, with Ok or with an error that map_err logs.
ProxyStreamEnd(i, k, res) ==
    /\ k \in 1..Len(clients[i].streams)
    /\ clients[i].streams[k] = "running"
    /\ clients' = [clients EXCEPT ![i].streams[k] = res]
    /\ UNCHANGED <<lm, reg>>
    /\ UNCHANGED clientVars

----------------------------------------------------------------------------
(* The exit: listen_main, broker_loop, c2e_loop, listen.rs:23-96 *)

\* CONFIG_FILE.wait(): the addresses bound, the country and the city.
CONFIG_FILE ==
    [c2e_listen |-> SockAddr(<<0, 0, 0, 0>>, 9000),
     b2e_listen |-> SockAddr(<<0, 0, 0, 0>>, 9001),
     country |-> "US", city |-> "nyc"]

\* addr.tap_mut(|addr| addr.set_ip(my_ip)): the IP replaced, the port kept.
SetIp(addr, my_ip) == [addr EXCEPT !.ip = my_ip]

\* The clock is in milliseconds since the epoch; Duration::as_secs() keeps
\* the whole seconds of a duration.
as_secs(millis) == millis \div 1000

\* let descriptor = ExitDescriptor { .. }, built when the clock reads clock
\* (SystemTime::now().duration_since(UNIX_EPOCH).unwrap()). listen.rs:50-67.
ExitDescriptor(my_ip, clock) ==
    [c2e_listen |-> SetIp(CONFIG_FILE.c2e_listen, my_ip),
     b2e_listen |-> SetIp(CONFIG_FILE.b2e_listen, my_ip),
     country |-> CONFIG_FILE.country, city |-> CONFIG_FILE.city,
     load |-> 0, expiry |-> as_secs(clock) + 600]

\* Seconds slept after a put_exit that succeeded, doubled.
TimerSecsDoubled == 60 * 2

\* smol::Timer::after(Duration::from_secs(60))
TimerSecs == 60

\* broker_loop before it runs: broker says whether CONFIG_FILE has one.
\* puts are the descriptors given to put_exit, each with the clock it was
\* built at, the milliseconds put_exit took, and the milliseconds by which
\* the timer after it fired late; acked counts the calls that succeeded.
RegStart(broker) ==
    [broker |-> broker, my_ip |-> None, clock |-> 1000900, puts |-> <<>>, acked |-> 0]

PutExit(my_ip, clock) ==
    [descriptor |-> ExitDescriptor(my_ip, clock), at |-> clock,
     took |-> None, late |-> None]

\* listen_main before either loop has run: the accept loop is about to bind,
\* the registration loop about to read its configuration.
LmStart == [c2e |-> "bind", broker |-> "start", ret |-> None]

\* c2e.race(broker): the loop that returned ends listen_main with its
\* result, and the other future is dropped with it.
LmReturn(which, msg) ==
    [c2e |-> IF which = "c2e" THEN "returned" ELSE "dropped",
     broker |-> IF which = "broker" THEN "returned" ELSE "dropped",
     ret |-> Some([tag |-> "Err", by |-> which, msg |-> msg])]

\* The exit before it is started.
NoExit ==
    /\ lm = LmStart /\ reg = RegStart(FALSE)
    /\ clients = [i \in Clients |-> NoClient]

\* TcpListener::bind(CONFIG_FILE.wait().c2e_listen).await?
C2eBind(ok) ==
    /\ lm.c2e = "bind"
    /\ lm' = IF ok THEN [lm EXCEPT !.c2e = "accept"] ELSE LmReturn("c2e", "bind")
    /\ UNCHANGED <<reg, clients>>
    /\ UNCHANGED clientVars

\* c2e_loop that awaits handle_client instead of spawning it.
C2eAcceptInline(i, res) ==
    /\ lm.c2e = "accept"
    /\ \A j \in Clients : clients[j].pc \in {"none", "done"}
    /\ res # None => (clients[i].pc = "none" /\ \A j \in 1..(i - 1) : clients[j].pc # "none")
    /\ IF res = None
       THEN lm' = LmReturn("c2e", "accept") /\ UNCHANGED clients
       ELSE /\ clients' = [clients EXCEPT ![i] = [NoClient EXCEPT !.pc = "read",
                                                                 !.secret = res.v]]
            /\ UNCHANGED lm
    /\ UNCHANGED reg
    /\ UNCHANGED clientVars

\* listener.accept().await? and the spawn of handle_client, detached
\* (listen.rs:90-94). res is None when accept fails, else Some of what the
\* new pipe's shared_secret() returns; i is the first free task slot.
C2eAccept(i, res) ==
    /\ lm.c2e = "accept"
    /\ res # None => (clients[i].pc = "none" /\ \A j \in 1..(i - 1) : clients[j].pc # "none")
    /\ IF res = None
       THEN lm' = LmReturn("c2e", "accept") /\ UNCHANGED clients
       ELSE /\ clients' = [clients EXCEPT ![i] = [NoClient EXCEPT !.pc = "read",
                                                                 !.secret = res.v]]
            /\ UNCHANGED lm
    /\ UNCHANGED reg
    /\ UNCHANGED clientVars

\* match &CONFIG_FILE.wait().broker { None => pending().await }
BrokerNone ==
    /\ lm.broker = "start" /\ ~reg.broker
    /\ lm' = [lm EXCEPT !.broker = "pending"]
    /\ UNCHANGED <<reg, clients>>
    /\ UNCHANGED clientVars

\* listen.rs:33-73: the IP echo answers (res = None: the GET or the parse
\* fails) after d milliseconds, the first descriptor is built and given to put_exit.
BrokerIp(res, d) ==
    /\ lm.broker = "start" /\ reg.broker
    /\ IF res = None
       THEN /\ lm' = LmReturn("broker", "checkip")
            /\ reg' = [reg EXCEPT !.clock = reg.clock + d]
       ELSE /\ lm' = [lm EXCEPT !.broker = "put"]
            /\ reg' = [reg EXCEPT !.my_ip = res, !.clock = reg.clock + d,
                         !.puts = Append(reg.puts, PutExit(res.v, reg.clock + d))]
    /\ UNCHANGED clients
    /\ UNCHANGED clientVars

\* broker_loop going round again after a put_exit that failed.
BrokerPutDoneRetry(res, d) ==
    /\ lm.broker = "put"
    /\ lm' = [lm EXCEPT !.broker = "wait"]
    /\ reg' = [reg EXCEPT !.clock = reg.clock + d,
                          !.puts[Len(reg.puts)].took = Some(d),
                          !.acked = IF res = "ok" THEN reg.acked + 1 ELSE reg.acked]
    /\ UNCHANGED clients
    /\ UNCHANGED clientVars

\* client.put_exit(to_upload).await?.map_err(..)? ends after d milliseconds:
\* "ok", a "transport" error, or "refused" by the broker. listen.rs:72-75.
BrokerPutDone(res, d) ==
    /\ lm.broker = "put"
    /\ IF res = "ok"
       THEN /\ lm' = [lm EXCEPT !.broker = "wait"]
            /\ reg' = [reg EXCEPT !.clock = reg.clock + d, !.acked = reg.acked + 1,
                                  !.puts[Len(reg.puts)].took = Some(d)]
       ELSE /\ lm' = LmReturn("broker", res)
            /\ reg' = [reg EXCEPT !.clock = reg.clock + d,
                                  !.puts[Len(reg.puts)].took = Some(d)]
    /\ UNCHANGED clients
    /\ UNCHANGED clientVars

\* The timer ends, late milliseconds after its deadline, and the loop goes
\* round: the next descriptor is built, with the same my_ip, and given to
\* put_exit. listen.rs:77, 49-73.
BrokerTimer(late) ==
    /\ lm.broker = "wait"
    /\ Len(reg.puts) < MaxPuts
    /\ lm' = [lm EXCEPT !.broker = "put"]
    /\ LET clock == reg.clock + TimerSecs * 1000 + late
       IN  reg' = [reg EXCEPT !.clock = clock,
                      !.puts = Append([reg.puts EXCEPT ![Len(reg.puts)].late = Some(late)],
                                      PutExit(reg.my_ip.v, clock))]
    /\ UNCHANGED clients
    /\ UNCHANGED clientVars

\* The client side of the program at rest, while the exit runs.
NoClientSide ==
    /\ exits = <<>> /\ constraint = [tag |-> "Auto"] /\ chosen = None
    /\ ROUTE_SHITLIST = EmptyCache
    /\ thr = [t \in Threads |-> IdleThread] /\ before = 0 /\ finished = 0
    /\ NoGetDialer /\ NoDial

\* Inputs of the runs of the whole exit: the public IPs the IP echo may
\* answer; a pipe with no shared secret or with the secret 5; a ClientHello
\* with the X25519 key of the secret 3, with the challenge 7, or unreadable.
PublicIps == {<<198, 51, 100, 7>>, <<203, 0, 113, 9>>}

ExitInit ==
    /\ lm = LmStart
    /\ reg \in {RegStart(TRUE), RegStart(FALSE)}
    /\ clients = [i \in Clients |-> NoClient]
    /\ NoClientSide

ExitNext ==
    \/ \E ok \in BOOLEAN : C2eBind(ok)
    \/ \E i \in Clients, res \in {None, Some(None), Some(Some(5))} : C2eAccept(i, res)
    \/ \E i \in Clients,
          msg \in { Some([crypt_hello |-> X25519(PublicKey(3))]),
                    Some([crypt_hello |-> SharedSecretChallenge(7)]), None } :
          HcReadHello(i, msg, 2)
    \/ \E i \in Clients, ok \in BOOLEAN : HcWriteHello(i, ok)
    \/ \E i \in Clients : HcMuxAccept(i, FALSE)
    \/ BrokerNone
    \/ \E res \in {None} \cup { Some(ip) : ip \in PublicIps } : BrokerIp(res, 0)
    \/ \E res \in {"ok", "transport", "refused"} : BrokerPutDone(res, 0)
    \/ BrokerTimer(0)

SpecExit == ExitInit /\ [][ExitNext]_vars

\* The registration loop on its own, with the clock: when it starts, how
\* long the IP echo and each put_exit take, how late each timer fires.
RegInit ==
    /\ lm = LmStart
    /\ reg \in { [RegStart(TRUE) EXCEPT !.clock = c] : c \in {1000000, 1000900} }
    /\ clients = [i \in Clients |-> NoClient]
    /\ NoClientSide

RegNext ==
    \/ \E res \in {None} \cup { Some(ip) : ip \in PublicIps }, d \in {0, 250} : BrokerIp(res, d)
    \/ \E res \in {"ok", "transport", "refused"}, d \in {0, 538500, 539999} :
          BrokerPutDone(res, d)
    \/ \E late \in {0, 1000} : BrokerTimer(late)

SpecReg == RegInit /\ [][RegNext]_vars

\* Inputs of one connection looked at closely: the X25519 keys of the client
\* ephemeral secrets 1..4 and a key that is no one's public key, the
\* challenges 7 and 8, an unreadable hello; exit ephemeral secrets 1..4.
ConnHellos ==
    { Some([crypt_hello |-> X25519(PublicKey(a))]) : a \in 1..4 }
    \cup { Some([crypt_hello |-> X25519(0)]) }
    \cup { Some([crypt_hello |-> SharedSecretChallenge(k)]) : k \in {7, 8} }
    \cup { None }

ConnInit ==
    /\ lm = [LmStart EXCEPT !.c2e = "accept"]
    /\ reg = RegStart(FALSE)
    /\ clients = [i \in Clients |-> NoClient]
    /\ NoClientSide

ConnNext ==
    \/ \E res \in {Some(None), Some(Some(5)), Some(Some(6))} : C2eAccept(1, res)
    \/ \E msg \in ConnHellos, my_esk \in 1..4 : HcReadHello(1, msg, my_esk)
    \/ \E ok \in BOOLEAN : HcWriteHello(1, ok)
    \/ \E ok \in BOOLEAN : HcMuxAccept(1, ok)
    \/ \E k \in 1..MaxStreams, res \in {"ok", "err"} : ProxyStreamEnd(1, k, res)

SpecConn == ConnInit /\ [][ConnNext]_vars

----------------------------------------------------------------------------
(* The client: get_dialer, dials of the returned dialer, the failure cache *)

Init ==
    /\ exits = <<>> /\ chosen = None
    /\ constraint \in GdConstraints
    /\ gd = "start" /\ mode \in BridgeModes /\ bridge_routes = None /\ dialer = None
    /\ whitelisted = <<>> /\ calls = <<>>
    /\ ROUTE_SHITLIST = EmptyCache
    /\ thr = [t \in Threads |-> IdleThread] /\ before = 0 /\ finished = 0
    /\ NoDial /\ NoExit

ExitsCall(level) == IF level = "Plus" THEN "get_exits" ELSE "get_free_exits"

\* get_dialer with any other constraint calls get_connect_token and awaits
\* its answer (route.rs:93).
GdTokenCall ==
    /\ gd = "start" /\ constraint.tag # "Direct"
    /\ gd' = "token"
    /\ calls' = Append(calls, "get_connect_token")
    /\ UNCHANGED <<mode, bridge_routes, dialer, whitelisted>>
    /\ UNCHANGED <<selVars, cacheVars, dialVars, exitVars>>

\* get_connect_token answers with the account level; broker_client succeeds
\* and get_exits or get_free_exits is called, by that level.
GdToken(level) ==
    /\ gd = "token"
    /\ gd' = "exits"
    /\ calls' = Append(calls, ExitsCall(level))
    /\ UNCHANGED <<mode, bridge_routes, dialer, whitelisted>>
    /\ UNCHANGED <<selVars, cacheVars, dialVars, exitVars>>

\* get_connect_token fails: "could not get connect token".
GdTokenFail ==
    /\ gd = "token"
    /\ gd' = "err"
    /\ UNCHANGED calls
    /\ UNCHANGED <<mode, bridge_routes, dialer, whitelisted>>
    /\ UNCHANGED <<selVars, cacheVars, dialVars, exitVars>>

\* The exit list arrives and verifies: the exit is chosen and whitelisted,
\* the direct dialer built, and get_routes called (route.rs:104-157).
GdExits(all_exits) ==
    /\ gd = "exits"
    /\ exits' = all_exits
    /\ chosen' = ChooseExit(all_exits, constraint)
    /\ IF chosen'.tag = "Ok"
       THEN /\ gd' = "routes"
            /\ whitelisted' = Append(whitelisted, chosen'.exit.c2e_listen.ip)
            /\ calls' = Append(calls, "get_routes")
       ELSE /\ gd' = "err"
            /\ UNCHANGED <<whitelisted, calls>>
    /\ UNCHANGED <<constraint, mode, bridge_routes, dialer>>
    /\ UNCHANGED <<cacheVars, dialVars, exitVars>>

\* The exit list call fails, is refused, or does not verify.
GdExitsFail ==
    /\ gd = "exits"
    /\ gd' = "err"
    /\ UNCHANGED <<mode, bridge_routes, dialer, whitelisted, calls>>
    /\ UNCHANGED <<selVars, cacheVars, dialVars, exitVars>>

\* get_routes answers: the route is compiled and the final dialer composed
\* (route.rs:156-175).
GdRoutes(r) ==
    /\ gd = "routes"
    /\ bridge_routes' = r
    /\ whitelisted' = whitelisted \o route_to_dialer(r).wl
    /\ dialer' = final_dialer(mode, direct_dialer(chosen.exit.c2e_listen),
                              route_to_dialer(r).d)
    /\ gd' = "done"
    /\ UNCHANGED <<mode, calls>>
    /\ UNCHANGED <<selVars, cacheVars, dialVars, exitVars>>

\* get_routes fails, and under ForceDirect the direct dialer is returned all the same.
GdRoutesFailDirectAnyway ==
    /\ gd = "routes"
    /\ IF mode = "ForceDirect"
       THEN gd' = "done" /\ dialer' = direct_dialer(chosen.exit.c2e_listen)
       ELSE gd' = "err" /\ UNCHANGED dialer
    /\ UNCHANGED <<mode, bridge_routes, whitelisted, calls>>
    /\ UNCHANGED <<selVars, cacheVars, dialVars, exitVars>>

\* get_routes fails or is refused: the ? operators at route.rs:158-159 return.
GdRoutesFail ==
    /\ gd = "routes"
    /\ gd' = "err"
    /\ UNCHANGED <<mode, bridge_routes, dialer, whitelisted, calls>>
    /\ UNCHANGED <<selVars, cacheVars, dialVars, exitVars>>

\* A dial of the returned dialer begins; nt is what the network will do.
\* The dyn_delay closures reached at once read the cache as it is now.
DialStart ==
    /\ dialer # None /\ dial = Idle
    /\ dials < MaxDials
    /\ \E nt \in [DialerAddrs(dialer) -> Outcomes] :
          /\ net' = nt
          /\ dial' = Start(dialer, 0, nt, "L", ROUTE_SHITLIST)
    /\ now' = 0
    /\ dials' = dials + 1
    /\ log' = Conns(dial')
    /\ UNCHANGED <<selVars, cacheVars, gdVars, exitVars>>

\* Time passes until the next timer or connect of the dial ends; the cache's
\* entries age by as much, and a dyn_delay closure reached now reads the
\* cache as it is then.
DialStep(b) ==
    /\ Running(dial) /\ NextEvent(dial) > 0
    /\ now' = now + NextEvent(dial)
    /\ ROUTE_SHITLIST' = Aged(ROUTE_SHITLIST, NextEvent(dial))
    /\ dial' = Advance(dial, NextEvent(dial), now', net, b, ROUTE_SHITLIST')
    /\ log' = log \cup Conns(dial')
    /\ UNCHANGED <<dials, net>>
    /\ UNCHANGED <<selVars, raceVars, gdVars, exitVars>>

\* The caller drops the dial, or takes its result.
DialEnd ==
    /\ dial # Idle
    /\ dial' = Idle /\ now' = 0 /\ net' = NoNet /\ log' = {}
    /\ UNCHANGED dials
    /\ UNCHANGED <<selVars, cacheVars, gdVars, exitVars>>

\* d milliseconds pass in which no timer or connect of a dial in progress
\* ends: the cache's entries age, and so do the timers of the dial.
Elapse(d) ==
    /\ \E a \in DOMAIN ROUTE_SHITLIST : ROUTE_SHITLIST[a].age < TTL * 1000
    /\ ROUTE_SHITLIST' = Aged(ROUTE_SHITLIST, d)
    /\ IF Running(dial)
       THEN /\ NextEvent(dial) = 0 \/ d < NextEvent(dial)
            /\ now + d <= MaxNow
            /\ now' = now + d
            /\ dial' = Advance(dial, d, now', net, "L", ROUTE_SHITLIST')
       ELSE UNCHANGED <<dial, now>>
    /\ UNCHANGED <<dials, net, log>>
    /\ UNCHANGED <<selVars, raceVars, gdVars, exitVars>>

Next ==
    \/ GdTokenCall
    \/ \E level \in {"Plus", "Free"} : GdToken(level)
    \/ GdTokenFail
    \/ \E all_exits \in GdExitLists : GdExits(all_exits)
    \/ GdExitsFail
    \/ \E r \in GdRoutes_ : GdRoutes(r)
    \/ GdRoutesFail
    \/ DialStart
    \/ \E b \in {"L", "R"} : DialStep(b)
    \/ DialEnd
    \/ \E addr \in BumpAddrs :
          finished + Entered < MaxBumps /\ deprioritize_route_get_with(1, addr)
    \/ deprioritize_route_insert(1)
    \/ Elapse(TTL * 1000 - 500)

Spec == Init /\ [][Next]_vars

----------------------------------------------------------------------------
(* The failure cache on its own *)

CacheInit ==
    /\ ROUTE_SHITLIST = EmptyCache
    /\ thr = [t \in Threads |-> IdleThread] /\ before = 0 /\ finished = 0
    /\ exits = <<>> /\ constraint = [tag |-> "Auto"] /\ chosen = None
    /\ NoGetDialer /\ NoDial /\ NoExit

CacheNext ==
    \/ \E addr \in BumpAddrs :
          finished + Entered < MaxRaceCalls /\ deprioritize_route_get_with(1, addr)
    \/ deprioritize_route_insert(1)
    \/ \E d \in {(TTL * 1000) \div 3, (TTL * 1000) \div 2} : Elapse(d)

SpecCache == CacheInit /\ [][CacheNext]_vars

----------------------------------------------------------------------------
(* The route compiler on its own: one route compiled, then dialed *)

RouteInit ==
    /\ bridge_routes \in Routes
    /\ gd = "routes" /\ mode = "ForceBridges" /\ dialer = None
    /\ whitelisted = <<>> /\ calls = <<>>
    /\ ROUTE_SHITLIST = EmptyCache
    /\ thr = [t \in Threads |-> IdleThread] /\ before = 0 /\ finished = 0
    /\ exits = <<>> /\ constraint = [tag |-> "Auto"] /\ chosen = None
    /\ NoDial /\ NoExit

\* let bridge_dialer = route_to_dialer(&bridge_routes)
Compile ==
    /\ dialer = None
    /\ dialer' = route_to_dialer(bridge_routes).d
    /\ whitelisted' = whitelisted \o route_to_dialer(bridge_routes).wl
    /\ UNCHANGED <<gd, mode, bridge_routes, calls>>
    /\ UNCHANGED <<selVars, cacheVars, dialVars, exitVars>>

RouteNext ==
    \/ Compile
    \/ DialStart
    \/ \E b \in {"L", "R"} : DialStep(b)
    \/ DialEnd
    \/ finished + Entered < MaxBumps /\ deprioritize_route_get_with(1, B1)
    \/ deprioritize_route_insert(1)
    \/ Elapse(TTL * 1000 - 500)

SpecRoute == RouteInit /\ [][RouteNext]_vars

----------------------------------------------------------------------------
(* The client with every kind of constraint: the Direct branch as well *)

\* "1.2.3.4:1000", and n hexadecimal digits x y x y ...
DirHost == <<"1", ".", "2", ".", "3", ".", "4", ":", "1", "0", "0", "0">>
HexText(n, x, y) == [i \in 1..n |-> IF i % 2 = 1 THEN x ELSE y]

\* Direct constraints: two well formed (digits of either case), and ones
\* with no '/', an odd number of digits, 31 bytes, 33 bytes, a character
\* that is no digit, and a second '/'.
DirectStrings ==
    { DirHost \o <<"/">> \o HexText(64, "a", "b"),
      DirHost \o <<"/">> \o HexText(64, "A", "B"),
      DirHost,
      DirHost \o <<"/">> \o HexText(63, "a", "b"),
      DirHost \o <<"/">> \o HexText(62, "a", "b"),
      DirHost \o <<"/">> \o HexText(66, "a", "b"),
      DirHost \o <<"/">> \o HexText(64, "a", "g"),
      DirHost \o <<"/">> \o HexText(62, "a", "b") \o <<"/", "a">> }

\* What smol::net::resolve answers: an error, no address, one, or two.
D1 == SockAddr(<<1, 2, 3, 4>>, 1000)
D2 == SockAddr(<<5, 6, 7, 8>>, 1000)

\* get_dialer with a Direct constraint, whole: route.rs:52-80.
GdDirect(resolved, pick, on_curve) ==
    /\ gd = "start" /\ constraint.tag = "Direct"
    /\ IF resolved = None THEN pick = 1
       ELSE IF resolved.v = <<>> THEN pick = 1 ELSE pick \in 1..Len(resolved.v)
    /\ LET res == DirectBranch(constraint.dir, resolved, pick, on_curve)
       IN  /\ whitelisted' = whitelisted \o res.wl
           /\ IF res.tag = "Ok"
              THEN /\ gd' = "done"
                   /\ chosen' = [tag |-> "Ok", pubkey |-> res.pubkey, exit |-> res.exit]
                   /\ dialer' = TcpDialer(res.dest_addr, "constraint")
              ELSE /\ gd' = "err"
                   /\ UNCHANGED <<chosen, dialer>>
    /\ UNCHANGED <<exits, constraint, mode, bridge_routes, calls>>
    /\ UNCHANGED <<cacheVars, dialVars, exitVars>>

\* The routes get_routes answers with here: nested ones as well.
ClientRoutes ==
    GdRoutes_ \cup
    { Race(<<Other("quic"), Fallback(<<Tcp(B1), Tcp(B2)>>)>>),
      Fallback(<<Timeout(250, Tcp(B1)), Sosistab3("cookie", Tcp(B2))>>),
      Timeout(250, Race(<<Tcp(B1), Delay(500, Tcp(B2))>>)) }

ClientInit ==
    /\ exits = <<>> /\ chosen = None
    /\ constraint \in GdConstraints \cup { [tag |-> "Direct", dir |-> d] : d \in DirectStrings }
    /\ gd = "start" /\ mode \in BridgeModes /\ bridge_routes = None /\ dialer = None
    /\ whitelisted = <<>> /\ calls = <<>>
    /\ ROUTE_SHITLIST = EmptyCache
    /\ thr = [t \in Threads |-> IdleThread] /\ before = 0 /\ finished = 0
    /\ NoDial /\ NoExit

ClientNext ==
    \/ \E resolved \in {None, Some(<<>>), Some(<<D1>>), Some(<<D1, D2>>)}, pick \in 1..2, on_curve \in BOOLEAN :
          GdDirect(resolved, pick, on_curve)
    \/ GdTokenCall
    \/ \E level \in {"Plus", "Free"} : GdToken(level)
    \/ GdTokenFail
    \/ \E all_exits \in GdExitLists : GdExits(all_exits)
    \/ GdExitsFail
    \/ \E r \in ClientRoutes : GdRoutes(r)
    \/ GdRoutesFail
    \/ DialStart
    \/ \E b \in {"L", "R"} : DialStep(b)
    \/ DialEnd
    \/ finished + Entered < MaxBumps /\ deprioritize_route_get_with(1, B1)
    \/ deprioritize_route_insert(1)
    \/ Elapse(TTL * 1000 - 500)

SpecClient == ClientInit /\ [][ClientNext]_vars

----------------------------------------------------------------------------
(* Inputs of the exit selection *)

MaxExits == 3

Countries == {"US", "JP"}
Cities == {"tyo", "nyc"}
\* Loads 0.000244140625, 0.000732421875, 0.10009765625 and 0.5.
Loads == {1, 3, 410, 2048}

\* The i-th exit of a list: exit i listens on 10.0.0.i.
ExitsAt(i) ==
    { <<i, [c2e_listen |-> SockAddr(<<10, 0, 0, i>>, 9000),
            b2e_listen |-> SockAddr(<<10, 0, 0, i>>, 9001),
            country |-> co, city |-> ci, load |-> l, expiry |-> 0]>>
      : co \in Countries, ci \in Cities, l \in Loads }

RECURSIVE ExitListsOfLen(_)
ExitListsOfLen(n) ==
    IF n = 0 THEN {<<>>}
    ELSE { Append(xs, e) : xs \in ExitListsOfLen(n - 1), e \in ExitsAt(n) }

\* The non-Direct constraints; "DE" is a country no exit is in, and
\* "010.0.0.1" and "exit1.example" are hostnames no IP prints as.
SelConstraints ==
    {[tag |-> "Auto"]}
    \cup { [tag |-> "Country", country |-> co] : co \in Countries \cup {"DE"} }
    \cup { [tag |-> "CountryCity", country |-> co, city |-> ci]
           : co \in Countries, ci \in Cities }
    \cup { [tag |-> "Hostname", hostname |-> h]
           : h \in {"10.0.0.1", "10.0.0.2", "010.0.0.1", "exit1.example"} }

----------------------------------------------------------------------------
(* The selection on its own: inputs drawn at Init, one application *)

SelInit ==
    /\ exits \in UNION { ExitListsOfLen(n) : n \in 0..MaxExits }
    /\ constraint \in SelConstraints
    /\ chosen = None
    /\ ROUTE_SHITLIST = EmptyCache
    /\ thr = [t \in Threads |-> IdleThread]
    /\ before = 0 /\ finished = 0
    /\ NoGetDialer /\ NoDial /\ NoExit

Select ==
    /\ chosen = None
    /\ chosen' = ChooseExit(exits, constraint)
    /\ UNCHANGED <<exits, constraint>>
    /\ UNCHANGED <<cacheVars, gdVars, dialVars, exitVars>>

SelNext == Select

SpecSel == SelInit /\ [][SelNext]_vars

----------------------------------------------------------------------------
(* deprioritize_route called from several threads at once *)

\* The cache is empty, or holds the entry one earlier call left for RaceAddr.
RaceInit ==
    /\ ROUTE_SHITLIST \in {EmptyCache, CacheInsert(EmptyCache, RaceAddr, 2)}
    /\ before = Penalty(ROUTE_SHITLIST, RaceAddr)
    /\ thr = [t \in Threads |-> IdleThread]
    /\ finished = 0
    /\ exits = <<>> /\ constraint = [tag |-> "Auto"] /\ chosen = None
    /\ NoGetDialer /\ NoDial /\ NoExit

\* Any thread begins a call while calls are left, or ends its call.
RaceNext ==
    \/ \E t \in Threads :
          finished + Entered < MaxRaceCalls /\ deprioritize_route_get_with(t, RaceAddr)
    \/ \E t \in Threads : deprioritize_route_insert(t)

SpecRace == RaceInit /\ [][RaceNext]_vars

----------------------------------------------------------------------------
(* Claims about the exit selection (checked under SpecSel) *)

\* The constraint filter as the claims word it.
ClaimPass(e, c) ==
    CASE c.tag = "Auto" -> TRUE
      [] c.tag = "Country" -> e.country = c.country
      [] c.tag = "CountryCity" -> e.country = c.country /\ e.city = c.city
      [] c.tag = "Hostname" -> IpToString(e.b2e_listen.ip) = c.hostname

Passing == { i \in 1..Len(exits) : ClaimPass(exits[i][2], constraint) }

\* The exits the choice is made among: the passing ones, or all when none passes.
Candidates == IF Passing # {} THEN Passing ELSE 1..Len(exits)

ChosenIs(i) == chosen.pubkey = exits[i][1] /\ chosen.exit = exits[i][2]

\* load*1000 with the fraction dropped, and load*1000 rounded to the nearest integer.
TruncMillis(load) == (load * 1000) \div 4096
RoundMillis(load) == (load * 1000 + 2048) \div 4096

\* C1: with a non-empty exit list some exit of the list is chosen, and when
\* at least one exit passes the constraint filter the chosen exit passes it,
\* whatever the loads of the others.
C1_ChosenPassesFilter ==
    (chosen # None /\ exits # <<>>) =>
        /\ chosen.tag = "Ok"
        /\ \E i \in 1..Len(exits) : ChosenIs(i)
        /\ (Passing # {} => ClaimPass(chosen.exit, constraint))

\* Countries {US, US, JP}, Country(JP), the JP exit the most loaded: JP is chosen.
C1_Witness ==
    /\ Len(exits) = 3
    /\ constraint = [tag |-> "Country", country |-> "JP"]
    /\ exits[1][2].country = "US" /\ exits[2][2].country = "US"
    /\ exits[3][2].country = "JP"
    /\ exits[3][2].load > exits[1][2].load /\ exits[3][2].load > exits[2][2].load
    /\ chosen # None /\ chosen.tag = "Ok" /\ ChosenIs(3)

\* C2 as stated: the chosen exit has the least load*1000 ROUNDED to an
\* integer among the passing exits (among all exits when none passes).
C2_MinRoundedLoad ==
    (chosen # None /\ chosen.tag = "Ok") =>
        \E i \in Candidates :
            /\ ChosenIs(i)
            /\ \A j \in Candidates :
                  RoundMillis(exits[j][2].load) >= RoundMillis(exits[i][2].load)

\* C2 amended: the chosen exit is the first, in list order, of the exits
\* with the least load*1000 TRUNCATED to an integer, among the passing exits
\* (among all exits when none passes).
C2_FirstMinTruncatedLoad ==
    (chosen # None /\ chosen.tag = "Ok") =>
        \E i \in Candidates :
            /\ ChosenIs(i)
            /\ \A j \in Candidates :
                  /\ TruncMillis(exits[j][2].load) >= TruncMillis(exits[i][2].load)
                  /\ (j < i => TruncMillis(exits[j][2].load) > TruncMillis(exits[i][2].load))

\* No exit passes Country(DE); loads 3/4096 and 1/4096 (times 1000: 0.73
\* and 0.24) both truncate to 0, and the first exit of the unfiltered list
\* is chosen.
C2_Witness ==
    /\ Len(exits) = 2
    /\ constraint = [tag |-> "Country", country |-> "DE"]
    /\ exits[1][2].load = 3 /\ exits[2][2].load = 1
    /\ chosen # None /\ chosen.tag = "Ok" /\ ChosenIs(1)

----------------------------------------------------------------------------
(* Claims about concurrent deprioritize_route calls (checked under SpecRace) *)

\* C7: when every concurrent deprioritize_route call on an address with a
\* live entry has returned, the strike count is higher than before by exactly
\* the number of calls: no increment is lost.
C7_NoLostIncrement ==
    (before > 0 /\ \A t \in Threads : thr[t].pc = "idle") =>
        Penalty(ROUTE_SHITLIST, RaceAddr) = before + finished

----------------------------------------------------------------------------
(* Claims about the failure cache (checked under SpecCache) *)

\* A step in which the entry of address a is written.
Written(a) ==
    /\ a \in DOMAIN ROUTE_SHITLIST'
    /\ ROUTE_SHITLIST'[a].age = 0
    /\ (a \notin DOMAIN ROUTE_SHITLIST \/ ROUTE_SHITLIST[a] # ROUTE_SHITLIST'[a])

\* C5: a call of deprioritize_route(addr) sets the strike count of an address
\* with no live entry to 1 and raises a live count n to n+1, the penalty
\* read being the count (0 with no live entry): the call writes the penalty
\* read when it began plus one, and that is the penalty once it has returned.
C5_BumpAddsOneStrike ==
    [][\A t \in Threads :
          /\ (thr[t].pc = "idle" /\ thr'[t].pc = "insert") =>
                thr'[t].v = Penalty(ROUTE_SHITLIST, thr'[t].addr) + 1
          /\ (thr[t].pc = "insert" /\ thr'[t].pc = "idle") =>
                Penalty(ROUTE_SHITLIST', thr[t].addr) = thr[t].v]_vars

\* C6: the penalty of an address never decreases while its entry is live;
\* the entry is live exactly until 600 seconds have passed since its last
\* write, each write restarting the 600 seconds; and once the entry has
\* expired the penalty is 0 until the next write.
C6_MonotoneUntilExpiry ==
    /\ [](\A a \in DOMAIN ROUTE_SHITLIST :
            /\ ROUTE_SHITLIST[a].age < 600000 => Penalty(ROUTE_SHITLIST, a) = ROUTE_SHITLIST[a].v
            /\ ROUTE_SHITLIST[a].age >= 600000 => Penalty(ROUTE_SHITLIST, a) = 0)
    /\ [][\A a \in DOMAIN ROUTE_SHITLIST :
            /\ Penalty(ROUTE_SHITLIST', a) < Penalty(ROUTE_SHITLIST, a)
                  => (ROUTE_SHITLIST'[a].age >= 600000 /\ Penalty(ROUTE_SHITLIST', a) = 0)
            /\ ROUTE_SHITLIST'[a].v # ROUTE_SHITLIST[a].v => ROUTE_SHITLIST'[a].age = 0
            /\ (Penalty(ROUTE_SHITLIST, a) = 0 /\ ~Written(a))
                  => Penalty(ROUTE_SHITLIST', a) = 0]_vars

\* An entry written twice, then left alone for 600 seconds: the penalty is back to 0.
C6_Witness ==
    /\ B1 \in DOMAIN ROUTE_SHITLIST
    /\ ROUTE_SHITLIST[B1].v = 3 /\ ROUTE_SHITLIST[B1].age = 600000
    /\ Penalty(ROUTE_SHITLIST, B1) = 0

----------------------------------------------------------------------------
(* Claims about get_dialer and its dialer (checked under Spec) *)

C2eOfChosen == chosen.exit.c2e_listen

\* C3: under ForceDirect a dial starts TCP connects of the direct dialer
\* only, to the chosen exit's c2e_listen; under ForceBridges only connects of
\* the compiled bridge route; under Auto the direct dialer is raced with the
\* bridge dialer, which is held back 1000 ms.
C3_ComposedByBridgeMode ==
    /\ gd = "done" =>
          LET direct == DynDelayDialer(TcpDialer(C2eOfChosen, "direct"), C2eOfChosen)
              bridge == route_to_dialer(bridge_routes).d
          IN  /\ mode = "ForceDirect" => dialer = direct
              /\ mode = "ForceBridges" => dialer = bridge
              /\ mode = "Auto" => dialer = RaceDialer(direct, DelayDialer(bridge, 1000))
    /\ mode = "ForceDirect" =>
          \A c \in log : c.site = "direct" /\ c.addr = C2eOfChosen
    /\ mode = "ForceBridges" =>
          \A c \in log : c.site = "route"
    /\ (mode = "Auto" /\ Running(dial) /\ now < 1000) =>
          /\ dial.k = "race"
          /\ dial.l.k \in {"conn", "wait", "err"}
          /\ dial.l.k = "conn" => (dial.l.site = "direct" /\ dial.l.addr = C2eOfChosen)
          /\ dial.l.k = "wait" => dial.l.then = TcpDialer(C2eOfChosen, "direct")
          /\ dial.r.k = "wait" /\ dial.r.left = 1000 - now
    /\ mode = "Auto" => \A c \in log : c.site = "route" => c.at >= 1000

\* Auto: the direct connect failed and a connect of the bridge route is in flight.
C3_Witness ==
    /\ mode = "Auto" /\ Running(dial)
    /\ \E c \in log : c.site = "direct"
    /\ \E c \in Conns(dial) : c.site = "route"

\* C4 as stated: in Auto, whatever the failure cache holds, the direct
\* connect starts one second before the bridge dialer's dial, so that a
\* direct connect taking 200 ms beats a bridge dial taking 300 ms.
C4_DirectAlwaysHeadStart ==
    /\ mode = "Auto" =>
          \A c \in log : c.site = "route" =>
              \E d \in log : d.site = "direct" /\ d.at + 1000 <= c.at
    /\ (mode = "Auto" /\ Finished(dial) /\ bridge_routes = Tcp(B1)
            /\ net[C2eOfChosen] = [res |-> "ok", ms |-> 200]
            /\ net[B1] = [res |-> "ok", ms |-> 300])
       => (dial = DialOk(C2eOfChosen, "direct") /\ \A c \in log : c.site = "direct")

\* The pre-dial delay with which running dial p began: a wait's length, or
\* 0 when the connect is already in flight.
PreDelay(p) == IF p.k = "wait" THEN p.left ELSE IF p.k = "conn" THEN 0 ELSE -1

\* C4 amended: in Auto the bridge dialer's dial starts 1000 ms after the
\* dial began, and the direct connect starts penalty(exit c2e) seconds after
\* it began, the penalty being read when the dial begins; when that penalty
\* is 0, a direct connect taking 200 ms wins and no bridge connect is started.
C4_HeadStartLessPenalty ==
    /\ [][(mode = "Auto" /\ dial = Idle /\ dial' # Idle) =>
            /\ dial'.k = "race"
            /\ PreDelay(dial'.l) = 1000 * Penalty(ROUTE_SHITLIST, C2eOfChosen)
            /\ dial'.r.k = "wait" /\ dial'.r.left = 1000]_vars
    /\ [](mode = "Auto" => \A c \in log : c.site = "route" => c.at >= 1000)
    /\ []((mode = "Auto" /\ Finished(dial)
            /\ [addr |-> C2eOfChosen, site |-> "direct", at |-> 0] \in log
            /\ net[C2eOfChosen] = [res |-> "ok", ms |-> 200])
          => (dial = DialOk(C2eOfChosen, "direct") /\ \A c \in log : c.site = "direct"))

\* No penalty: direct took 200 ms, the bridge would have taken 300 ms, direct won.
C4_Witness ==
    /\ mode = "Auto" /\ bridge_routes = Tcp(B1)
    /\ dial = DialOk(C2E(1), "direct") /\ now = 200
    /\ net[C2E(1)] = [res |-> "ok", ms |-> 200]
    /\ net[B1] = [res |-> "ok", ms |-> 300]
    /\ log = {[addr |-> C2E(1), site |-> "direct", at |-> 0]}

\* C8: the pre-dial delay of the direct dialer, and of a compiled Tcp(addr)
\* leaf, is penalty(addr) seconds as the failure cache reads when that dial
\* starts (0 when the entry has expired), and the connect starts when the
\* delay is over. Under Auto the leaf's dial starts 1000 ms into the dial of
\* the returned dialer, and it is then that the cache is read.
C8_DelayBoundAtDialTime ==
    /\ [][(mode = "ForceDirect" /\ dial = Idle /\ dial' # Idle) =>
            PreDelay(dial') = 1000 * Penalty(ROUTE_SHITLIST, C2eOfChosen)]_vars
    /\ [][(mode = "ForceBridges" /\ bridge_routes \in {Tcp(B1), Tcp(B2)}
             /\ dial = Idle /\ dial' # Idle) =>
            PreDelay(dial') = 1000 * Penalty(ROUTE_SHITLIST, bridge_routes.addr)]_vars
    /\ [][(mode = "Auto" /\ bridge_routes \in {Tcp(B1), Tcp(B2)}
             /\ Running(dial) /\ now < 1000 /\ now' = 1000) =>
            /\ dial'.k = "race"
            /\ PreDelay(dial'.r) = 1000 * Penalty(ROUTE_SHITLIST', bridge_routes.addr)]_vars
    /\ [][(mode \in {"ForceDirect", "ForceBridges"} /\ dial.k = "wait"
             /\ dial' # Idle /\ dial' # dial
             /\ bridge_routes \in {Tcp(B1), Tcp(B2)}) =>
            (dial'.k = "conn" /\ dial'.at = now + dial.left /\ now = 0)]_vars

\* Under Auto the direct connect has failed and the connect to B1 begins
\* 1000 ms into the dial without a delay: the entry of B1, written by a call
\* of deprioritize_route, has expired by then.
C8_Witness ==
    /\ mode = "Auto" /\ bridge_routes = Tcp(B1) /\ now = 1000
    /\ dial.k = "race" /\ dial.l.k = "err"
    /\ dial.r.k = "conn" /\ dial.r.addr = B1 /\ dial.r.at = 1000
    /\ B1 \in DOMAIN ROUTE_SHITLIST /\ ROUTE_SHITLIST[B1].v = 2
    /\ Penalty(ROUTE_SHITLIST, B1) = 0

----------------------------------------------------------------------------
(* Claims about compiled routes (checked under SpecRoute) *)

IsEmptyOrOther(r) ==
    \/ r.k = "Other"
    \/ r.k \in {"Race", "Fallback"} /\ r.inside = <<>>

IsSingle(r) == r.k \in {"Race", "Fallback"} /\ Len(r.inside) = 1

\* C9: every route compiles; a dial of the dialer compiled from Race([]),
\* Fallback([]) or Other(_) ends at once with a failure; and the dialer of a
\* Race or Fallback with one child dials as the child's dialer does.
C9_EmptyAndOtherFail ==
    /\ dialer = None => ENABLED Compile
    /\ (IsEmptyOrOther(bridge_routes) /\ dial # Idle) => (dial = DialErr /\ log = {})
    /\ (IsSingle(bridge_routes) /\ bridge_routes.inside[1].k = "Other" /\ dial # Idle)
          => (dial = DialErr /\ log = {})
    /\ (IsSingle(bridge_routes) /\ bridge_routes.inside[1].k = "Tcp" /\ dial # Idle) =>
          LET a == bridge_routes.inside[1].addr
          IN  /\ dial.k \in {"wait", "conn", "ok", "err"}
              /\ dial.k = "wait" => dial.then = TcpDialer(a, "route")
              /\ dial.k = "conn" => dial.addr = a
              /\ dial.k = "ok" => (dial.addr = a /\ net[a].res = "ok")
              /\ dial.k = "err" => net[a].res = "err"

\* The dialer of Fallback([]) was dialed and failed.
C9_Witness ==
    /\ bridge_routes = Fallback(<<>>) /\ dialer # None /\ dial = DialErr

\* The children of the route that are Tcp leaves.
TcpKids == { i \in 1..Len(bridge_routes.inside) : bridge_routes.inside[i].k = "Tcp" }
KidAddr(i) == bridge_routes.inside[i].addr
AllLeafKids ==
    \A i \in 1..Len(bridge_routes.inside) : bridge_routes.inside[i].k \in {"Tcp", "Other"}

\* C10: a dial of the dialer of Race(children), one child at least, starts
\* every child's dial at once; it fails only when every child has failed,
\* and succeeds with a child no other child's success came before; and when
\* it has resolved no connect is left in flight.
C10_RaceFirstSuccess ==
    (dialer # None /\ bridge_routes.k = "Race" /\ Len(bridge_routes.inside) >= 1
        /\ AllLeafKids /\ dial # Idle) =>
        /\ \A i \in TcpKids :
              \/ \E c \in log : c.addr = KidAddr(i) /\ c.at = 0
              \/ KidAddr(i) \in DOMAIN ROUTE_SHITLIST
        /\ dial = DialErr => \A i \in TcpKids : net[KidAddr(i)].res = "err"
        /\ dial.k = "ok" =>
              /\ \E i \in TcpKids : KidAddr(i) = dial.addr
              /\ net[dial.addr].res = "ok"
              /\ \A c \in log : net[c.addr].res = "ok" => c.at + net[c.addr].ms >= now
        /\ Finished(dial) => Conns(dial) = {}

\* Race([Tcp(B1), Tcp(B2)]): B2 won at 200 ms while the connect to B1,
\* started with it, was in flight.
C10_Witness ==
    /\ bridge_routes = Race(<<Tcp(B1), Tcp(B2)>>)
    /\ dial = DialOk(B2, "route") /\ now = 200
    /\ net[B1].res = "hang"
    /\ \E c \in log : c.addr = B1 /\ c.at = 0

----------------------------------------------------------------------------
(* Claims about the whitelist hook and the Direct branch (checked under SpecClient) *)

WhitelistedIps == { whitelisted[i] : i \in 1..Len(whitelisted) }

\* C11: every TCP connect a dial of the returned dialer starts goes to an IP
\* the whitelist hook was called with before; indeed every address the
\* returned dialer can connect to was whitelisted when get_dialer returned.
C11_WhitelistBeforeDial ==
    /\ \A c \in log : c.addr.ip \in WhitelistedIps
    /\ dialer # None => \A a \in DialerAddrs(dialer) : a.ip \in WhitelistedIps

\* A connect to the Tcp leaf under Sosistab3 under Fallback is in flight,
\* after the connect to the leaf under Timeout.
C11_Witness ==
    /\ bridge_routes = Fallback(<<Timeout(250, Tcp(B1)), Sosistab3("cookie", Tcp(B2))>>)
    /\ mode = "ForceBridges"
    /\ \E c \in Conns(dial) : c.addr = B2
    /\ \E c \in log : c.addr = B1

\* The text of the key in a Direct constraint: what follows the first '/'.
KeyText(dir) == SubSeq(dir, FirstSlash(dir) + 1, Len(dir))

IsHexDigit(ch) ==
    ch \in {"0", "1", "2", "3", "4", "5", "6", "7", "8", "9", "a", "b", "c", "d", "e", "f",
            "A", "B", "C", "D", "E", "F"}

Malformed(dir) ==
    \/ \A i \in 1..Len(dir) : dir[i] # "/"
    \/ \E i \in 1..Len(KeyText(dir)) : ~IsHexDigit(KeyText(dir)[i])
    \/ Len(KeyText(dir)) # 64

\* C12: with a Direct constraint get_dialer calls neither the auth
\* collaborator nor the broker; when it returns a dialer it has called the
\* whitelist hook once, with the IP of the resolved address, the dialer is a
\* plain TCP dialer to that address, and the key is the 32 bytes the
\* hexadecimal text spells; and with no '/', text that is not hexadecimal,
\* or a key that is not 32 bytes, it fails having whitelisted nothing.
C12_DirectSkipsBroker ==
    constraint.tag = "Direct" =>
        /\ calls = <<>>
        /\ gd = "done" =>
              /\ dialer.k = "Tcp" /\ dialer.dest_addr \in {D1, D2}
              /\ whitelisted = <<dialer.dest_addr.ip>>
              /\ chosen.pubkey = [i \in 1..32 |-> 171]
              /\ ~Malformed(constraint.dir)
              /\ \A c \in log : c.addr = dialer.dest_addr /\ c.at = 0
        /\ Malformed(constraint.dir) =>
              (gd \in {"start", "err"} /\ whitelisted = <<>> /\ dialer = None)

\* Direct("1.2.3.4:1000/<hex>"): the dialer returned connects to 1.2.3.4:1000.
C12_Witness ==
    /\ constraint.tag = "Direct" /\ gd = "done"
    /\ dialer = TcpDialer(D1, "constraint") /\ whitelisted = <<<<1, 2, 3, 4>>>>
    /\ dial = DialOk(D1, "constraint")

----------------------------------------------------------------------------
(* Claims about the bridge-route fetch of get_dialer (checked under Spec) *)

CallsMade == { calls[i] : i \in 1..Len(calls) }

\* C20: get_routes is called once the exit is chosen and its c2e IP
\* whitelisted; a dialer is returned only when get_routes has answered, in
\* every bridge mode; and when get_routes fails get_dialer returns an error
\* and no dialer, the whitelisting of the exit's c2e IP left as it was.
C20_RoutesFetchAllOrNothing ==
    /\ "get_routes" \in CallsMade =>
          (chosen # None /\ chosen.tag = "Ok"
             /\ whitelisted # <<>> /\ whitelisted[1] = chosen.exit.c2e_listen.ip)
    /\ dialer # None => (gd = "done" /\ bridge_routes # None)
    /\ gd = "err" => dialer = None
    /\ (gd = "err" /\ "get_routes" \in CallsMade) =>
          whitelisted = <<chosen.exit.c2e_listen.ip>>

\* ForceDirect: the exit was chosen and whitelisted, get_routes failed, no dialer.
C20_Witness ==
    /\ mode = "ForceDirect" /\ gd = "err" /\ "get_routes" \in CallsMade
    /\ bridge_routes = None /\ dialer = None
    /\ whitelisted = <<<<10, 0, 0, 1>>>>

----------------------------------------------------------------------------
(* Claims about one connection to the exit (checked under SpecConn) *)

\* The place of the first e in a sequence of events, 0 when it is not there.
EventAt(ev, e) ==
    IF \E k \in 1..Len(ev) : ev[k] = e
    THEN CHOOSE k \in 1..Len(ev) : ev[k] = e /\ \A j \in 1..(k - 1) : ev[j] # e
    ELSE 0

\* C13: on every connection the ExitHello is written only after the
\* ClientHello was read and parsed, the pipe is wrapped only after that
\* write, the multiplexer is built only after the wrap, and streams are
\* accepted only from the multiplexer; while the write is awaited there is
\* neither a wrapped pipe nor a stream; and when the read or the parse of
\* the ClientHello fails nothing is written and no multiplexer is built.
C13_HandshakeOrder ==
    \A i \in Clients :
        LET c == clients[i]
            ev == c.events
            At(e) == EventAt(ev, e)
        IN  /\ \A k \in 1..Len(ev) :
                  /\ ev[k] = "write ExitHello" => (At("read ClientHello") \in 1..(k - 1))
                  /\ ev[k] = "wrap" => (At("write ExitHello") \in 1..(k - 1))
                  /\ ev[k] = "PicoMux::new" => (At("wrap") \in 1..(k - 1))
                  /\ ev[k] = "accept" => (At("PicoMux::new") \in 1..(k - 1))
            /\ c.exit_hello # None => (c.hello # None /\ At("read ClientHello") = 1)
            /\ At("write ExitHello") # 0 => c.exit_hello # None
            /\ c.pipe # None => At("wrap") # 0
            /\ c.streams # <<>> => At("PicoMux::new") # 0
            /\ c.pc = "write" => (c.pipe = None /\ c.streams = <<>> /\ At("wrap") = 0)
            /\ c.pc = "mux" => At("PicoMux::new") # 0
            /\ c.result = Some("read") =>
                  (ev = <<>> /\ c.exit_hello = None /\ c.pipe = None /\ c.streams = <<>>)
            /\ c.result = Some("write") =>
                  (At("write ExitHello") = 0 /\ c.pipe = None /\ c.streams = <<>>)

\* A connection on the X25519 path that has accepted its first stream.
C13_Witness ==
    /\ clients[1].events =
          <<"read ClientHello", "write ExitHello", "wrap", "PicoMux::new", "accept">>
    /\ clients[1].pipe # None /\ clients[1].pipe.v.tag = "Left"
    /\ clients[1].streams = <<"running">>

\* C14: when the ClientHello carries the X25519 key of a client's ephemeral
\* secret, the keys the exit derives with its own ephemeral secret are the
\* keys the client derives from the ephemeral key of the ExitHello: the exit
\* reads with the key the client writes with, labelled c2e, and writes with
\* the key the client reads with, labelled e2c, and the two keys differ.
C14_KeysAgree ==
    \A i \in Clients : \A a \in 1..4 :
        LET c == clients[i]
        IN  (c.exit_hello # None /\ c.hello.v.crypt_hello = X25519(PublicKey(a))) =>
               /\ c.exit_hello.v.inner.tag = "X25519"
               /\ c.keys # None
               /\ LET ck == ClientKeys(a, c.exit_hello.v.inner.epk)
                      read_key == c.keys.v[1]
                      write_key == c.keys.v[2]
                  IN  /\ read_key = ck.write_key /\ read_key.context = "c2e"
                      /\ write_key = ck.read_key /\ write_key.context = "e2c"
                      /\ read_key # write_key
                      /\ read_key.key_material = write_key.key_material
                      /\ c.pipe # None =>
                            c.pipe.v = [tag |-> "Left", read_key |-> ck.write_key,
                                        write_key |-> ck.read_key]

\* Client secret 3 (key 10) and exit secret 2 (key 2): both sides hold the
\* keys of the shared secret 8, and the multiplexer runs on the cipher pipe.
C14_Witness ==
    /\ clients[1].pc = "mux"
    /\ clients[1].hello.v.crypt_hello = X25519(10)
    /\ clients[1].exit_hello.v.inner = X25519(2)
    /\ clients[1].pipe.v = [tag |-> "Left", read_key |-> derive_key("c2e", 8),
                            write_key |-> derive_key("e2c", 8)]

----------------------------------------------------------------------------
(* Claims about the exit's tasks (checked under SpecExit) *)

\* A step in which the handle_client task of connection i returns.
Fails(i) == clients[i].pc \notin {"none", "done"} /\ clients'[i].pc = "done"

\* The accept loop is awaiting a connection and the model has a task slot left.
CanAccept == lm.c2e = "accept" /\ \E i \in Clients : clients[i].pc = "none"

\* C15: when a handle_client task returns, on a failed read or parse, a
\* missing shared secret, a failed write or a multiplexer error, nothing but
\* that task changes: the loops of listen_main and every other task are as
\* they were. Whatever tasks have returned, the accept loop still accepts,
\* and every other task still takes its next step.
C15_NoErrorAcrossClients ==
    /\ [][\A i \in Clients : Fails(i) =>
             /\ clients'[i].result \in {Some("read"), Some("no shared secret"),
                                        Some("write"), Some("mux")}
             /\ lm' = lm /\ reg' = reg
             /\ \A j \in Clients \ {i} : clients'[j] = clients[j]]_vars
    /\ [](CanAccept => ENABLED (\E i \in Clients : C2eAccept(i, Some(None))))
    /\ [](\A j \in Clients :
             /\ clients[j].pc = "read" =>
                   ENABLED HcReadHello(j, Some([crypt_hello |-> SharedSecretChallenge(7)]), 2)
             /\ clients[j].pc = "write" => ENABLED HcWriteHello(j, TRUE)
             /\ clients[j].pc = "mux" => ENABLED HcMuxAccept(j, FALSE))

\* The first task has returned on a multiplexer error; the accept loop
\* awaits the next connection and the second task is still at its handshake.
C15_Witness ==
    /\ clients[1].result = Some("mux")
    /\ clients[2].pc = "write"
    /\ lm.c2e = "accept" /\ lm.ret = None

----------------------------------------------------------------------------
(* Claims about the streams of one connection (checked under SpecConn) *)

\* A step in which the proxy_stream task of stream k of connection i ends.
StreamEnds(i, k) ==
    /\ k \in 1..Len(clients[i].streams)
    /\ clients[i].streams[k] = "running"
    /\ clients'[i].streams[k] # "running"

\* C16: when a proxy_stream task ends, with an error or without, only that
\* stream changes: the connection's accept loop and the other streams are as
\* they were; whatever has become of the streams accepted so far, mux.accept()
\* can still yield the next one and a running stream can still run; and
\* once mux.accept() has failed the connection's task has returned and no
\* stream is ever added to it.
C16_StreamIsolation ==
    /\ [][\A i \in Clients : \A k \in 1..MaxStreams : StreamEnds(i, k) =>
             /\ clients' = [clients EXCEPT ![i].streams[k] = clients'[i].streams[k]]
             /\ lm' = lm]_vars
    /\ [](\A i \in Clients :
             /\ (clients[i].pc = "mux" /\ Len(clients[i].streams) < MaxStreams)
                   => ENABLED HcMuxAccept(i, TRUE)
             /\ \A k \in 1..Len(clients[i].streams) :
                   clients[i].streams[k] = "running" => ENABLED ProxyStreamEnd(i, k, "err"))
    /\ [][\A i \in Clients :
             /\ (Fails(i) /\ clients[i].pc = "mux") =>
                   (clients'[i].result = Some("mux")
                      /\ clients'[i].streams = clients[i].streams)
             /\ clients[i].pc = "done" =>
                   (clients'[i].pc = "done" /\ Len(clients'[i].streams) = Len(clients[i].streams))
             /\ Len(clients'[i].streams) > Len(clients[i].streams) =>
                   (clients[i].pc = "mux" /\ clients'[i].pc = "mux")]_vars

\* The first stream's proxy_stream has failed; the accept loop has accepted
\* a second stream, which is running.
C16_Witness ==
    /\ clients[1].pc = "mux"
    /\ clients[1].streams = <<"err", "running">>

----------------------------------------------------------------------------
(* Claims about listen_main (checked under SpecExit) *)

\* A step in which a put_exit ends without having succeeded.
PutFails ==
    /\ lm.broker = "put"
    /\ reg'.puts[Len(reg.puts)].took # None
    /\ reg'.acked = reg.acked

\* C17: listen_main has returned exactly when one of its two loops has
\* returned, and then the other loop is dropped: from then on neither loop
\* steps, no connection is accepted and no descriptor is put. A put_exit that
\* fails, on the transport or refused by the broker, returns from the
\* registration loop and so drops the accept loop. With no broker configured
\* the registration loop puts nothing and never returns, so listen_main
\* returns only by the accept loop. The handle_client tasks spawned before
\* listen_main returned still take their steps after it.
C17_LoopsRace ==
    /\ [](/\ lm.ret # None <=>
                \/ (lm.c2e = "returned" /\ lm.broker = "dropped")
                \/ (lm.broker = "returned" /\ lm.c2e = "dropped")
          /\ lm.ret = None =>
                (lm.c2e \in {"bind", "accept"}
                   /\ lm.broker \in {"start", "pending", "put", "wait"})
          /\ lm.ret # None =>
                /\ lm.ret.v.by = "c2e" <=> lm.c2e = "returned"
                /\ lm.ret.v.by = "broker" <=> lm.broker = "returned"
                /\ lm.ret.v.msg \in {"checkip", "transport", "refused"} <=> lm.ret.v.by = "broker"
                /\ lm.ret.v.msg \in {"bind", "accept"} <=> lm.ret.v.by = "c2e"
          /\ ~reg.broker =>
                /\ reg.puts = <<>> /\ lm.broker \in {"start", "pending", "dropped"}
                /\ lm.ret # None => lm.ret.v.by = "c2e")
    /\ [][/\ lm.ret # None =>
                /\ lm' = lm /\ reg' = reg
                /\ \A i \in Clients : clients[i].pc = "none" => clients'[i].pc = "none"
          /\ PutFails =>
                /\ lm'.broker = "returned" /\ lm'.c2e = "dropped"
                /\ lm'.ret # None /\ lm'.ret.v.msg \in {"transport", "refused"}
                /\ Len(reg'.puts) = Len(reg.puts)]_vars
    /\ [](lm.ret # None => \A j \in Clients :
             /\ clients[j].pc = "read" =>
                   ENABLED HcReadHello(j, Some([crypt_hello |-> X25519(PublicKey(3))]), 2)
             /\ clients[j].pc = "write" => ENABLED HcWriteHello(j, TRUE)
             /\ clients[j].pc = "mux" => ENABLED HcMuxAccept(j, FALSE))

\* The broker has refused the second put_exit: the registration loop has
\* returned, the accept loop is dropped with a task slot still free, and the
\* task of the first connection is awaiting mux.accept().
C17_Witness ==
    /\ lm.ret = Some([tag |-> "Err", by |-> "broker", msg |-> "refused"])
    /\ lm.c2e = "dropped"
    /\ Len(reg.puts) = 2 /\ reg.acked = 1
    /\ clients[1].pc = "mux" /\ clients[2].pc = "none"

----------------------------------------------------------------------------
(* Claims about the registration loop (checked under SpecReg) *)

\* Milliseconds of a recorded duration, 0 while it is not recorded.
Millis(opt) == IF opt = None THEN 0 ELSE opt.v

\* The k-th descriptor put, as r records it.
PutAt(r, k) == r.puts[k]

\* What the cadence comes to, whatever the durations: the IP is found once
\* and is the IP of both endpoints of every descriptor, the ports those of
\* the configuration; load is 0 and expiry the whole seconds of the
\* construction time plus 600; a descriptor is built only after the put of
\* the one before it succeeded and 60 s and the timer's lateness have passed.
CadenceState ==
    /\ reg.puts # <<>> => reg.my_ip # None
    /\ reg.acked <= Len(reg.puts) /\ Len(reg.puts) <= reg.acked + 1
    /\ lm.broker = "wait" => (reg.puts # <<>> /\ reg.acked = Len(reg.puts))
    /\ lm.broker = "put" => Len(reg.puts) = reg.acked + 1
    /\ \A k \in 1..Len(reg.puts) :
          LET p == PutAt(reg, k)
          IN  /\ p.descriptor.c2e_listen = [ip |-> reg.my_ip.v, port |-> 9000]
              /\ p.descriptor.b2e_listen = [ip |-> reg.my_ip.v, port |-> 9001]
              /\ p.descriptor.load = 0
              /\ p.descriptor.expiry = (p.at \div 1000) + 600
              /\ k < Len(reg.puts) =>
                    /\ p.took # None /\ p.late # None
                    /\ PutAt(reg, k + 1).at = p.at + p.took.v + 60000 + p.late.v
                    /\ PutAt(reg, k + 1).at >= p.at + 60000

CadenceStep ==
    /\ reg.my_ip # None => reg'.my_ip = reg.my_ip
    /\ Len(reg'.puts) > Len(reg.puts) =>
          /\ Len(reg'.puts) = Len(reg.puts) + 1
          /\ reg.puts # <<>> =>
                (lm.broker = "wait" /\ reg.acked = Len(reg.puts)
                   /\ reg'.clock >= reg.clock + 60000)

\* The descriptor put last is unexpired up to the end of the step: the
\* instant its expiry names is not before the clock the step ends at.
LastUnexpiredThroughStep ==
    PutAt(reg, Len(reg.puts)).descriptor.expiry * 1000 >= reg'.clock

\* The registration loop is at a put_exit or at its timer, a descriptor put.
LoopRuns == lm.broker \in {"put", "wait"} /\ reg.puts # <<>>

\* C18 as stated: whenever every put_exit has completed in under 540 s, the
\* descriptor put last is unexpired at every instant while the loop runs.
C18_UnexpiredUnder540 ==
    [][(/\ LoopRuns
        /\ \A k \in 1..Len(reg.puts) : Millis(PutAt(reg', k).took) < 540000)
          => LastUnexpiredThroughStep]_vars

\* C18: the cadence, and: whenever every put_exit together with the wait
\* that follows it has completed in under 599 s, the descriptor put last is
\* unexpired at every instant while the loop runs. The second is lost from
\* expiry being in whole seconds; the timer fires 60 s after the put or later.
C18_CadenceUnexpiredUnder599 ==
    /\ []CadenceState
    /\ [][CadenceStep]_vars
    /\ [][(/\ LoopRuns
           /\ \A k \in 1..Len(reg.puts) :
                 Millis(PutAt(reg', k).took)
                   + (IF PutAt(reg', k).late = None THEN 0
                      ELSE 60000 + PutAt(reg', k).late.v) < 599000)
             => LastUnexpiredThroughStep]_vars

\* Three descriptors put, the first put_exit having taken 538.5 s and the
\* timer after it having fired on time: 598.5 s from the first to the second.
C18_Witness ==
    /\ Len(reg.puts) = 3 /\ lm.broker = "put"
    /\ reg.puts[1].took = Some(538500) /\ reg.puts[1].late = Some(0)
    /\ reg.puts[1].at = 1000900 /\ reg.puts[1].descriptor.expiry = 1600
    /\ reg.puts[2].at = 1599400

----------------------------------------------------------------------------
(* Claims about the shared-secret challenge (checked under SpecConn) *)

\* C19: a SharedSecretChallenge on a pipe with no shared secret ends the
\* task with "no shared secret" once the ClientHello is read: no ExitHello
\* is built or written, no pipe wrapped, no multiplexer built. On a pipe
\* with a shared secret the ExitHello carries SharedSecretResponse of the
\* hash of that secret keyed with the challenge, no keys are derived and
\* the multiplexer runs on the pipe as it is. Whenever an ExitHello is built
\* its inner variant is that of the ClientHello, and the pipe is wrapped in
\* the cipher exactly on the X25519 variant.
C19_ChallengeNeedsSecret ==
    \A i \in Clients :
        LET c == clients[i]
            ch == c.hello.v.crypt_hello
        IN  c.hello # None =>
              /\ (ch.tag = "SharedSecretChallenge" /\ c.secret = None) =>
                    /\ c.pc = "done" /\ c.result = Some("no shared secret")
                    /\ c.exit_hello = None /\ c.keys = None /\ c.pipe = None
                    /\ c.events = <<"read ClientHello">> /\ c.streams = <<>>
              /\ (ch.tag = "SharedSecretChallenge" /\ c.secret # None) =>
                    /\ c.exit_hello # None
                    /\ c.exit_hello.v.inner =
                          [tag |-> "SharedSecretResponse",
                           mac |-> [key |-> ch.key, input |-> c.secret.v]]
                    /\ c.keys = None
                    /\ c.result # Some("no shared secret")
                    /\ c.pc = "mux" => c.pipe = Some([tag |-> "Right"])
              /\ c.exit_hello # None =>
                    /\ ch.tag = "X25519" <=> c.exit_hello.v.inner.tag = "X25519"
                    /\ ch.tag = "SharedSecretChallenge"
                          <=> c.exit_hello.v.inner.tag = "SharedSecretResponse"
                    /\ ch.tag = "X25519" <=> c.keys # None
              /\ c.pipe # None =>
                    (c.pipe.v.tag = "Left" <=> ch.tag = "X25519")
              /\ c.pc = "mux" => c.pipe # None

\* Challenge 7 on a pipe whose shared secret is 5: the response is the hash
\* of 5 keyed with 7, and a stream is accepted on the unwrapped pipe.
C19_Witness ==
    /\ clients[1].hello = Some([crypt_hello |-> SharedSecretChallenge(7)])
    /\ clients[1].secret = Some(5)
    /\ clients[1].exit_hello.v.inner = SharedSecretResponse(keyed_hash(7, 5))
    /\ clients[1].pipe = Some([tag |-> "Right"])
    /\ clients[1].streams = <<"running">>

====
